---- MODULE Spec2Model ----
(***************************************************************************)
(* A model of the dataset split / resampling / combination logic of the   *)
(* ResearchToolKit (rtk) dataset-loading module.                          *)
(*                                                                         *)
(* Data frames are sequences of rows, arrays are sequences, and the       *)
(* random choices of the statistical libraries (shuffling, sampling with  *)
(* replacement) are nondeterministic choices of the actions.              *)
(***************************************************************************)
EXTENDS Integers, Sequences, FiniteSets

(***************************************************************************)
(* Bounds of the model.                                                    *)
(***************************************************************************)
MaxRows == 4
MaxResample == 3
MaxImages == 4
MaxGenerated == 2
MaxSampleTo == 2
MaxDfRows == 2
MaxFindings == 2
MaxCalls == 2
MaxAdditional == 2
MaxDatasetLen == 2
MaxEpochs == 3
MaxMetricValue == 2
MaxLoaders == 4
MaxIterations == 4
MaxTrainTimesteps == 2
MaxBatches == 2
MaxTransforms == 2

(***************************************************************************)
(* Program constants.                                                      *)
(***************************************************************************)
NihTestSizePct == 5
DefaultIntervalDivisor == 10

None == "None"
DefaultPositiveClass == "Pneumonia"

\* The class columns the model keeps of each metadata table: two classes the
\* datasets share and one class of their own.
NIH_CLASS_NAMES == {"Pneumonia", "Effusion", "Hernia"}

MIMIC_CLASS_NAMES == {"Pneumonia", "Effusion", "Fracture"}

\* The test sizes cfg.sklearn.model_selection.train_test_split may configure.
TextTestSizes == {25, 50}

(***************************************************************************)
(* Sequence helpers.                                                       *)
(***************************************************************************)
Range(s) == {s[i] : i \in 1..Len(s)}

shuffled_indices(n) ==
    {p \in [1..n -> 1..n] : \A i, j \in 1..n : p[i] = p[j] => i = j}

SeqsUpTo(S, n) == UNION {[1..k -> S] : k \in 1..n}

(***************************************************************************)
(* The metadata table (load_metadata): one row per image, indexed by the   *)
(* image's file name (here a number), with one 0/1 column per class and    *)
(* the target column.                                                      *)
(***************************************************************************)
ClassFlag(i, c) ==
    CASE c = "Pneumonia" -> IF i % 4 \in {1, 2, 3} THEN 1 ELSE 0
      [] c = "Effusion" -> IF i % 4 \in {2, 3} THEN 1 ELSE 0
      [] OTHER -> IF i % 4 \in {0, 2} THEN 1 ELSE 0

TargetOf(i) ==
    IF ClassFlag(i, "Hernia") = 1 THEN "Hernia"
    ELSE IF ClassFlag(i, "Effusion") = 1 THEN "Effusion"
    ELSE "Pneumonia"

load_metadata(class_names, splits) ==
    [i \in 1..MaxRows |->
        [idx |-> i,
         target |-> TargetOf(i),
         flags |-> [c \in class_names |-> ClassFlag(i, c)],
         split |-> splits[i]]]

NoSplitColumn == [i \in 1..MaxRows |-> ""]

(***************************************************************************)
(* Helpers shared by the loaders.                                          *)
(***************************************************************************)
\* Mutant: the configuration's value wins over the keyword argument.
resolve_positive_class_cfg_first(kw, cfgv) ==
    IF cfgv # None THEN cfgv
    ELSE IF kw # None THEN kw
    ELSE DefaultPositiveClass

\* positive_class = kwargs.get("positive_class"), else the preprocessing
\* configuration's value, else "Pneumonia".
resolve_positive_class(kw, cfgv) ==
    IF kw # None THEN kw
    ELSE IF cfgv # None THEN cfgv
    ELSE DefaultPositiveClass

\* frame[frame[positive_class] == 1]
subset_positive(frame, positive_class) ==
    SelectSeq(frame, LAMBDA r : r.flags[positive_class] = 1)

\* frame[frame.index.isin(list)]
index_isin(frame, list) ==
    SelectSeq(frame, LAMBDA r : r.idx \in list)

\* sklearn's size of the test part: ceil(test_size * n).
n_test_of(n, pct) == (n * pct + 99) \div 100

split_possible(n, pct) == n >= 1 /\ n - n_test_of(n, pct) >= 1

\* Mutant: the test part is taken from the head of the shuffled indices, where
\* the train part is taken from too.
train_test_split_overlap(arr, perm, n_test) ==
    LET n_train == Len(arr) - n_test IN
    [train |-> [i \in 1..n_train |-> arr[perm[i]]],
     test |-> [i \in 1..n_test |-> arr[perm[i]]]]

\* train_test_split of one array along the shuffled indices perm.
train_test_split(arr, perm, n_test) ==
    LET n_train == Len(arr) - n_test IN
    [train |-> [i \in 1..n_train |-> arr[perm[i]]],
     test |-> [i \in 1..n_test |-> arr[perm[n_train + i]]]]

\* X = frame.drop(columns=[target]).reset_index(drop=False).values
drop_target(frame) ==
    [i \in 1..Len(frame) |->
        [idx |-> frame[i].idx, flags |-> frame[i].flags, split |-> frame[i].split]]

\* y = frame[target].values
target_values(frame) == [i \in 1..Len(frame) |-> frame[i].target]

\* Mutant: the target column is attached in reverse row order.
concat_columns_reversed(X, y) ==
    [i \in 1..Len(X) |->
        [idx |-> X[i].idx, target |-> y[Len(y) + 1 - i], flags |-> X[i].flags,
         split |-> X[i].split]]

\* pd.DataFrame(np.concatenate((X, y), axis=1), columns=columns)
concat_columns(X, y) ==
    [i \in 1..Len(X) |->
        [idx |-> X[i].idx, target |-> y[i], flags |-> X[i].flags,
         split |-> X[i].split]]

\* resample_to_value: the frames it may return, rows drawn from the frame
\* with replacement.
resample_to_value(frame) ==
    IF frame = << >> THEN {<< >>} ELSE SeqsUpTo(Range(frame), MaxResample)

\* Mutant: the resampling ignores subset_to_positive_class.
nih_use_resampling_always(a) == a.use_sampling

\* use_sampling and subset_to_positive_class == False
nih_use_resampling(a) == a.use_sampling /\ a.subset_to_positive_class = FALSE

\* os.path.join(scan_path, filename) for every row, and the labels.
image_files_of(frame) == [i \in 1..Len(frame) |-> <<"scan_path", frame[i].idx>>]

labels_of(frame) == [i \in 1..Len(frame) |-> frame[i].target]

make_dataset(frame, transform) ==
    [image_files |-> image_files_of(frame),
     labels |-> labels_of(frame),
     transform |-> transform]

(***************************************************************************)
(* State of the loaders (load_nih_dataset, instantiate_text_dataset).      *)
(***************************************************************************)
VARIABLES
    lpc,             \* position in the loader
    largs,           \* arguments and configuration of the call
    metadata,        \* the metadata frame being split
    train_metadata,
    val_metadata,
    test_metadata,
    X_val,           \* validation arrays of train_test_split
    y_val,
    resampled,       \* resample_to_value was called
    ldatasets        \* the datasets returned

loadVars ==
    <<lpc, largs, metadata, train_metadata, val_metadata, test_metadata,
      X_val, y_val, resampled, ldatasets>>

VARIABLES
    spc,                        \* position in the function
    sargs,                      \* arguments and configuration of the call
    split_locals,               \* X_train, y_train, X_val, y_val, train_data
    train_val_test_split_dict   \* the dictionary returned

splitVars == <<spc, sargs, split_locals, train_val_test_split_dict>>

VARIABLES
    mpc,      \* position in transform_labels_to_metaclass
    margs,    \* arguments of the call
    df,       \* the data frame: its target column and old target column
    mcalls    \* calls made on the data frame

metaVars == <<mpc, margs, df, mcalls>>

VARIABLES
    ipc,               \* position in instantiate_image_dataset
    iargs,             \* the dataset configuration
    invoked,           \* the loaders instantiate_image_dataset has called
    loaded_datasets,   \* what the loader returned
    additional,        \* what the loaders of the additional datasets returned
    train_dataset,     \* the datasets combine_datasets builds
    val_dataset,
    test_dataset,
    returned           \* what instantiate_image_dataset returns

imageVars ==
    <<ipc, iargs, invoked, loaded_datasets, additional, train_dataset,
      val_dataset, test_dataset, returned>>

VARIABLES
    tpc,               \* position in prepare_run and in the trainer's run
    targs,             \* mode, loaders and configuration of the run
    handlers,          \* the handlers train() has put on the trainer
    epoch,             \* trainer.state.epoch
    should_terminate,  \* trainer.should_terminate, set by early stopping
    evaluations,       \* the evaluator runs so far, in order
    mlflow_ended,      \* mlflow.end_run() was called by the exception handler
    prepared           \* what prepare_run returned or raised

trainVars ==
    <<tpc, targs, handlers, epoch, should_terminate, evaluations,
      mlflow_ended, prepared>>

VARIABLES
    fpc,          \* position in _log_metrics_to_mlflow
    fargs,        \* metrics, split, epoch, generate_report, override
    reports,      \* the calls of build_report
    mlflow_log    \* the calls of mlflow.log_metrics

mlflowVars == <<fpc, fargs, reports, mlflow_log>>

VARIABLES
    dpc,           \* position: the trainer is created, has raised
    dargs,         \* use_autocast of the keyword arguments and of cfg.job
    train_state,   \* the model's mode, the gradients, the optimizer, the scaler
    last_step,     \* the operations of the last training step and the state before it
    iteration      \* the training steps the engine has called

stepVars == <<dpc, dargs, train_state, last_step, iteration>>

VARIABLES
    ppc,             \* position in train_loop
    pargs,           \* configuration, len(train_loader), the process
    loop_epoch,      \* epoch of the for loop, counted from 0
    loop_step,       \* batches of the epoch processed so far
    global_step,
    logged_steps,    \* the 'step' values given to mlflow.log_metrics, in order
    last_batch_ops,  \* the operations made for the last batch, in order
    epoch_events     \* the calls of evaluate and torch.save, in order

loopVars ==
    <<ppc, pargs, loop_epoch, loop_step, global_step, logged_steps,
      last_batch_ops, epoch_events>>

VARIABLES
    xpc,               \* position in create_transforms
    xargs,             \* dataset_cfg, use_transforms, transform_dicts
    transform_dicts,   \* the dictionary of transforms, as the call leaves it
    composed           \* what create_transforms returned

transformVars == <<xpc, xargs, transform_dicts, composed>>

VARIABLES
    qpc,      \* position in apply_label_to_text_prompts
    qargs,    \* the row x and the base
    prompt    \* the prompt returned

promptVars == <<qpc, qargs, prompt>>

\* The variables of the dataset functions and of the run functions.
dataVars == <<loadVars, splitVars, metaVars, imageVars>>

runVars ==
    <<trainVars, mlflowVars, stepVars, loopVars, transformVars, promptVars>>

\* What the actions of each function leave unchanged.
notLoad == <<splitVars, metaVars, imageVars, runVars>>

notSplit == <<loadVars, metaVars, imageVars, runVars>>

notMeta == <<loadVars, splitVars, imageVars, runVars>>

notImage == <<loadVars, splitVars, metaVars, runVars>>

notTrain ==
    <<dataVars, mlflowVars, stepVars, loopVars, transformVars, promptVars>>

notMlflow ==
    <<dataVars, trainVars, stepVars, loopVars, transformVars, promptVars>>

notStep ==
    <<dataVars, trainVars, mlflowVars, loopVars, transformVars, promptVars>>

notLoop ==
    <<dataVars, trainVars, mlflowVars, stepVars, transformVars, promptVars>>

notTransform ==
    <<dataVars, trainVars, mlflowVars, stepVars, loopVars, promptVars>>

notPrompt ==
    <<dataVars, trainVars, mlflowVars, stepVars, loopVars, transformVars>>

vars == <<dataVars, runVars>>

NoArgs ==
    [fn |-> None, name |-> None, use_sampling |-> FALSE,
     subset_to_positive_class |-> FALSE, kw_positive_class |-> None,
     cfg_positive_class |-> None, mode |-> None,
     train_val_list |-> {}, test_list |-> {}, test_size_pct |-> 0]

LoadInit ==
    /\ lpc = "idle"
    /\ largs = NoArgs
    /\ metadata = << >>
    /\ train_metadata = << >>
    /\ val_metadata = << >>
    /\ test_metadata = << >>
    /\ X_val = << >>
    /\ y_val = << >>
    /\ resampled = FALSE
    /\ ldatasets = << >>

positive_class_of(a) ==
    resolve_positive_class(a.kw_positive_class, a.cfg_positive_class)

Listings == [1..MaxRows -> {"train_val", "test", "none"}]

(***************************************************************************)
(* load_nih_dataset                                                        *)
(***************************************************************************)
\* Lines 56-93: arguments, load_metadata, the subset to the positive class.
load_nih_dataset_load ==
    /\ lpc = "idle"
    /\ UNCHANGED notLoad
    /\ \E use_sampling, subset \in BOOLEAN, kw \in {None, "Hernia"},
          cfgv \in {None, "Effusion"}, listing \in Listings :
        LET a == [fn |-> "load_nih_dataset", name |-> "nih",
                  use_sampling |-> use_sampling,
                  subset_to_positive_class |-> subset,
                  kw_positive_class |-> kw, cfg_positive_class |-> cfgv,
                  mode |-> None,
                  train_val_list |-> {i \in 1..MaxRows : listing[i] = "train_val"},
                  test_list |-> {i \in 1..MaxRows : listing[i] = "test"},
                  test_size_pct |-> NihTestSizePct]
            nih_metadata == load_metadata(NIH_CLASS_NAMES, NoSplitColumn)
        IN /\ largs' = a
           /\ metadata' = IF subset
                          THEN subset_positive(nih_metadata, positive_class_of(a))
                          ELSE nih_metadata
    /\ lpc' = "nih_loaded"
    /\ UNCHANGED <<train_metadata, val_metadata, test_metadata, X_val, y_val,
                   resampled, ldatasets>>

\* Lines 95-115: the train/validation split and the rebuilt train frame.
load_nih_dataset_split ==
    /\ lpc = "nih_loaded"
    /\ UNCHANGED notLoad
    /\ LET selected == index_isin(metadata, largs.train_val_list)
           n == Len(selected)
           X == drop_target(selected)
           y == target_values(selected)
       IN /\ split_possible(n, NihTestSizePct)
          /\ \E perm \in shuffled_indices(n) :
                LET Xs == train_test_split(X, perm, n_test_of(n, NihTestSizePct))
                    ys == train_test_split(y, perm, n_test_of(n, NihTestSizePct))
                IN /\ train_metadata' = concat_columns(Xs.train, ys.train)
                   /\ X_val' = Xs.test
                   /\ y_val' = ys.test
    /\ lpc' = "nih_split"
    /\ UNCHANGED <<largs, metadata, val_metadata, test_metadata, resampled,
                   ldatasets>>

\* train_test_split raises ValueError when a part would be empty.
load_nih_dataset_split_raises ==
    /\ lpc = "nih_loaded"
    /\ UNCHANGED notLoad
    /\ ~split_possible(Len(index_isin(metadata, largs.train_val_list)),
                       NihTestSizePct)
    /\ lpc' = "raised"
    /\ UNCHANGED <<largs, metadata, train_metadata, val_metadata, test_metadata,
                   X_val, y_val, resampled, ldatasets>>

\* Lines 116-124: the optional resampling of the train frame.
load_nih_dataset_resample ==
    /\ lpc = "nih_split"
    /\ UNCHANGED notLoad
    /\ IF nih_use_resampling(largs)
       THEN /\ train_metadata' \in resample_to_value(train_metadata)
            /\ resampled' = TRUE
       ELSE UNCHANGED <<train_metadata, resampled>>
    /\ lpc' = "nih_train"
    /\ UNCHANGED <<largs, metadata, val_metadata, test_metadata, X_val, y_val,
                   ldatasets>>

\* Lines 128-141: the validation frame and the test frame.
load_nih_dataset_val_test ==
    /\ lpc = "nih_train"
    /\ UNCHANGED notLoad
    /\ val_metadata' = concat_columns(X_val, y_val)
    /\ test_metadata' = index_isin(metadata, largs.test_list)
    /\ lpc' = "nih_frames"
    /\ UNCHANGED <<largs, metadata, train_metadata, X_val, y_val, resampled,
                   ldatasets>>

\* Lines 143-148: return_metadata returns the three frames.
load_nih_dataset_return_metadata ==
    /\ lpc = "nih_frames"
    /\ UNCHANGED notLoad
    /\ lpc' = "nih_metadata_returned"
    /\ UNCHANGED <<largs, metadata, train_metadata, val_metadata, test_metadata,
                   X_val, y_val, resampled, ldatasets>>

\* Lines 150-241: the three datasets.
load_nih_dataset_datasets ==
    /\ lpc = "nih_frames"
    /\ UNCHANGED notLoad
    /\ ldatasets' =
          [train |-> make_dataset(train_metadata, "train_transforms"),
           val |-> make_dataset(val_metadata, "train_transforms"),
           test |-> make_dataset(test_metadata, "eval_transforms")]
    /\ lpc' = "nih_done"
    /\ UNCHANGED <<largs, metadata, train_metadata, val_metadata, test_metadata,
                   X_val, y_val, resampled>>

(***************************************************************************)
(* instantiate_text_dataset                                                *)
(***************************************************************************)
class_names_of(name) ==
    IF name = "nih" \/ name = "cxr14" THEN NIH_CLASS_NAMES ELSE MIMIC_CLASS_NAMES

\* drop_classes = set(class_names) - (set(NIH_CLASS_NAMES) & set(MIMIC_CLASS_NAMES))
drop_classes(class_names) ==
    class_names \ (NIH_CLASS_NAMES \cap MIMIC_CLASS_NAMES)

\* for d in drop_classes: metadata = metadata.drop(metadata[metadata[d] == 1].index)
drop_rows_of(frame, classes) ==
    SelectSeq(frame, LAMBDA r : \A d \in classes : r.flags[d] # 1)

\* use_sampling and subset_to_positive_class == False and cfg.mode != "evaluate"
text_use_resampling(a) ==
    /\ a.use_sampling
    /\ a.subset_to_positive_class = FALSE
    /\ a.mode # "evaluate"

\* _create_dataset: the rows of the frame with their multi-hot labels over
\* NIH_CLASS_NAMES.
create_text_dataset(frame, split) ==
    [split |-> split,
     rows |-> [i \in 1..Len(frame) |-> frame[i].idx],
     labels |-> [i \in 1..Len(frame) |->
                    {c \in NIH_CLASS_NAMES \cap DOMAIN frame[i].flags :
                        frame[i].flags[c] = 1}]]

SplitColumns == [1..MaxRows -> {"train", "validate", "test"}]

\* Lines 262-359 and 414-452: arguments, load_metadata, the subset to the
\* positive class and, in evaluate mode, the drop of the classes that the
\* two datasets do not share.
instantiate_text_dataset_load ==
    /\ lpc = "idle"
    /\ UNCHANGED notLoad
    /\ \E name \in {"nih", "cxr14", "mimic-cxr", "ixi"},
          use_sampling, subset \in BOOLEAN, kw_given, cfg_given \in BOOLEAN,
          mode \in {"train", "evaluate"}, listing \in Listings,
          pct \in TextTestSizes :
        LET class_names == class_names_of(name)
            is_nih == name = "nih" \/ name = "cxr14"
            a == [fn |-> "instantiate_text_dataset", name |-> name,
                  use_sampling |-> use_sampling,
                  subset_to_positive_class |-> subset,
                  kw_positive_class |->
                      IF kw_given
                      THEN CHOOSE c \in class_names : c \notin {"Pneumonia", "Effusion"}
                      ELSE None,
                  cfg_positive_class |-> IF cfg_given THEN "Effusion" ELSE None,
                  mode |-> mode,
                  train_val_list |-> {i \in 1..MaxRows : listing[i] = "train_val"},
                  test_list |-> {i \in 1..MaxRows : listing[i] = "test"},
                  test_size_pct |-> pct]
            splits == [i \in 1..MaxRows |->
                          IF is_nih THEN ""
                          ELSE IF listing[i] = "train_val" THEN "train"
                          ELSE IF listing[i] = "test" THEN "test"
                          ELSE "validate"]
            loaded == load_metadata(class_names, splits)
            subsetted == IF subset
                         THEN subset_positive(loaded, positive_class_of(a))
                         ELSE loaded
            kept == IF mode = "evaluate"
                    THEN drop_rows_of(subsetted, drop_classes(class_names))
                    ELSE subsetted
        IN /\ largs' = a
           /\ IF is_nih
              THEN metadata' = kept /\ lpc' = "text_nih_loaded"
              ELSE IF name = "mimic-cxr"
              THEN metadata' = kept /\ lpc' = "text_mimic_loaded"
              ELSE metadata' = loaded /\ lpc' = "text_none"
    /\ UNCHANGED <<train_metadata, val_metadata, test_metadata, X_val, y_val,
                   resampled, ldatasets>>

\* Lines 364-384, split_data(metadata, "train"): the train/validation split
\* and the optional resampling of the train frame.
instantiate_text_dataset_split_train ==
    /\ lpc = "text_nih_loaded"
    /\ UNCHANGED notLoad
    /\ LET selected == index_isin(metadata, largs.train_val_list)
           n == Len(selected)
       IN /\ split_possible(n, largs.test_size_pct)
          /\ \E perm \in shuffled_indices(n) :
                LET sp == train_test_split(selected, perm,
                                           n_test_of(n, largs.test_size_pct))
                IN /\ val_metadata' = sp.test
                   /\ IF text_use_resampling(largs)
                      THEN /\ train_metadata' \in resample_to_value(sp.train)
                           /\ resampled' = TRUE
                      ELSE /\ train_metadata' = sp.train
                           /\ UNCHANGED resampled
    /\ lpc' = "text_nih_train"
    /\ UNCHANGED <<largs, metadata, test_metadata, X_val, y_val, ldatasets>>

instantiate_text_dataset_split_raises ==
    /\ lpc = "text_nih_loaded"
    /\ UNCHANGED notLoad
    /\ ~split_possible(Len(index_isin(metadata, largs.train_val_list)),
                       largs.test_size_pct)
    /\ lpc' = "raised"
    /\ UNCHANGED <<largs, metadata, train_metadata, val_metadata, test_metadata,
                   X_val, y_val, resampled, ldatasets>>

\* Lines 385-393, split_data(metadata, "test").
instantiate_text_dataset_split_test ==
    /\ lpc = "text_nih_train"
    /\ UNCHANGED notLoad
    /\ test_metadata' = index_isin(metadata, largs.test_list)
    /\ lpc' = "text_frames"
    /\ UNCHANGED <<largs, metadata, train_metadata, val_metadata, X_val, y_val,
                   resampled, ldatasets>>

\* Lines 454-465: the MIMIC split by the "split" column and the optional
\* resampling of the train frame.
instantiate_text_dataset_split_mimic ==
    /\ lpc = "text_mimic_loaded"
    /\ UNCHANGED notLoad
    /\ LET train == SelectSeq(metadata, LAMBDA r : r.split = "train") IN
          IF text_use_resampling(largs)
          THEN /\ train_metadata' \in resample_to_value(train)
               /\ resampled' = TRUE
          ELSE /\ train_metadata' = train
               /\ UNCHANGED resampled
    /\ val_metadata' = SelectSeq(metadata, LAMBDA r : r.split = "validate")
    /\ test_metadata' = SelectSeq(metadata, LAMBDA r : r.split = "test")
    /\ lpc' = "text_frames"
    /\ UNCHANGED <<largs, metadata, X_val, y_val, ldatasets>>

\* Lines 395-412 and 467-486: the three datasets.
instantiate_text_dataset_datasets ==
    /\ lpc = "text_frames"
    /\ UNCHANGED notLoad
    /\ ldatasets' =
          [train |-> create_text_dataset(train_metadata, "train"),
           val |-> create_text_dataset(val_metadata, "validation"),
           test |-> create_text_dataset(test_metadata, "test")]
    /\ lpc' = "text_done"
    /\ UNCHANGED <<largs, metadata, train_metadata, val_metadata, test_metadata,
                   X_val, y_val, resampled>>

NextLoad ==
    \/ load_nih_dataset_load
    \/ load_nih_dataset_split
    \/ load_nih_dataset_split_raises
    \/ load_nih_dataset_resample
    \/ load_nih_dataset_val_test
    \/ load_nih_dataset_return_metadata
    \/ load_nih_dataset_datasets
    \/ instantiate_text_dataset_load
    \/ instantiate_text_dataset_split_train
    \/ instantiate_text_dataset_split_raises
    \/ instantiate_text_dataset_split_test
    \/ instantiate_text_dataset_split_mimic
    \/ instantiate_text_dataset_datasets

(***************************************************************************)
(* instantiate_train_val_test_datasets                                     *)
(***************************************************************************)
Extensions == {".jpeg", ".png", ".nii.gz", ".dcm"}

SplitTestSizes == {25, 50}

\* The truth value Python gives a string.
Truthy(str) == str # ""

\* if extension == ".jpeg" or ".png": ... elif extension == ".nii.gz": ... else:
\* the operand ".png" stands alone, a non-empty string.
extension_branch(extension) ==
    IF extension = ".jpeg" \/ Truthy(".png") THEN "image"
    ELSE IF extension = ".nii.gz" THEN "nifti"
    ELSE "raise"

\* kwargs.get("perform_validation", default)
perform_validation(a, default) ==
    IF a.perform_validation = "absent" THEN default
    ELSE a.perform_validation = "true"

\* get_images_and_classes(dataset): the image files and labels of a dataset
\* of n images.
dataset_images(n) == [i \in 1..n |-> <<"scan", i>>]

dataset_labels(n) == [i \in 1..n |-> i % 2]

\* pd.DataFrame({IMAGE_KEYNAME: X, LABEL_KEYNAME: y})
data_frame(X, y) == [i \in 1..Len(X) |-> [image |-> X[i], label |-> y[i]]]

frame_images(frame) == [i \in 1..Len(frame) |-> frame[i].image]

frame_labels(frame) == [i \in 1..Len(frame) |-> frame[i].label]

rows_of_class(frame, c) == SelectSeq(frame, LAMBDA r : r.label = c)

\* frame.sample(n, replace=True)
sample_with_replacement(rows, n) ==
    IF rows = << >> THEN {<< >>} ELSE [1..n -> Range(rows)]

\* frame.sample(n): n distinct rows in a random order.
sample_without_replacement(rows, n) ==
    {[i \in 1..n |-> rows[p[i]]] :
        p \in {q \in [1..n -> 1..Len(rows)] :
                  \A i, j \in 1..n : q[i] = q[j] => i = j}}

\* Mutant: the sample is drawn from the whole frame, not from each class.
groupby_sample_whole_frame(frame, n) ==
    {a \o b : a \in sample_with_replacement(frame, n),
              b \in sample_with_replacement(rows_of_class(frame, 1), n)}

\* train_data.groupby(LABEL_KEYNAME).apply(lambda x: x.sample(n, replace=True))
groupby_sample(frame, n) ==
    {a \o b : a \in sample_with_replacement(rows_of_class(frame, 0), n),
              b \in sample_with_replacement(rows_of_class(frame, 1), n)}

\* RandomUnderSampler.fit_resample: every class is cut to the size of the
\* smallest class, the smallest class is kept whole.
random_under_sample(frame) ==
    LET c0 == rows_of_class(frame, 0)
        c1 == rows_of_class(frame, 1)
        least == IF c0 = << >> THEN Len(c1)
                 ELSE IF c1 = << >> THEN Len(c0)
                 ELSE IF Len(c0) < Len(c1) THEN Len(c0) ELSE Len(c1)
        cut(rows) == IF rows = << >> THEN {<< >>}
                     ELSE IF Len(rows) = least THEN {rows}
                     ELSE sample_without_replacement(rows, least)
    IN {a \o b : a \in cut(c0), b \in cut(c1)}

\* The generated images found in the directory "_dir_", labelled with the
\* encoding of the positive class.
gen_data(n_gen) == [i \in 1..n_gen |-> [image |-> <<"gen", i>>, label |-> 1]]

Abs(x) == IF x < 0 THEN 0 - x ELSE x

make_image_dataset(X, y, transform) ==
    [image_files |-> X, labels |-> y, transform |-> transform]

\* LabelEncoder().fit_transform(labels): the rank of each label among the
\* labels present.
label_encode(labels) ==
    [i \in 1..Len(labels) |->
        Cardinality({l \in Range(labels) : l < labels[i]})]

\* Lines 694-745 and 752-757, the ".nii.gz" branch: the dictionaries it may
\* return; none when the final logging reads the unbound val_dataset.
nifti_split_dicts(a) ==
    LET X == dataset_images(a.n_images)
        y == label_encode(dataset_labels(a.n_images))
        n == Len(X)
        n_test == n_test_of(n, a.test_size_pct)
    IN IF ~split_possible(n, a.test_size_pct)
          \/ perform_validation(a, FALSE) # perform_validation(a, TRUE)
       THEN {}
       ELSE UNION {
          LET Xs == train_test_split(X, perm, n_test)
              ys == train_test_split(y, perm, n_test)
              test == make_image_dataset(Xs.test, ys.test, "eval_transforms")
              m == Len(Xs.train)
              m_val == n_test_of(m, a.test_size_pct)
          IN IF ~perform_validation(a, FALSE)
             THEN {[k \in {"test", "train"} |->
                      IF k = "test" THEN test
                      ELSE make_image_dataset(Xs.train, ys.train,
                                              "train_transforms")]}
             ELSE IF ~split_possible(m, a.test_size_pct) THEN {}
             ELSE {LET Xv == train_test_split(Xs.train, perm2, m_val)
                       yv == train_test_split(ys.train, perm2, m_val)
                   IN [k \in {"test", "val", "train"} |->
                         IF k = "test" THEN test
                         ELSE IF k = "val"
                         THEN make_image_dataset(Xv.test, yv.test,
                                                 "eval_transforms")
                         ELSE make_image_dataset(Xv.train, yv.train,
                                                 "train_transforms")] :
                   perm2 \in shuffled_indices(m)}
          : perm \in shuffled_indices(n)}

NoSplitArgs ==
    [extension |-> None, perform_validation |-> "absent",
     use_sampling |-> FALSE, has_dir |-> FALSE, sample_to_value |-> 0,
     n_gen |-> 0, test_size_pct |-> 0, n_images |-> 0]

NoLocals ==
    [X_train |-> << >>, y_train |-> << >>, X_val |-> << >>, y_val |-> << >>,
     train_data |-> << >>]

EmptyDict == << >>

SplitInit ==
    /\ spc = "idle"
    /\ sargs = NoSplitArgs
    /\ split_locals = NoLocals
    /\ train_val_test_split_dict = EmptyDict

\* Lines 596-626: the configuration, the branch on the extension and the
\* train/validation split of the image branch.  (Lines 694-757 for the
\* other two branches.)
instantiate_train_val_test_datasets_split ==
    /\ spc = "idle"
    /\ UNCHANGED notSplit
    /\ \E extension \in Extensions,
          pv \in {"absent", "true", "false"},
          sample_to_value \in 0..MaxSampleTo,
          n_gen \in -1..MaxGenerated,
          pct \in SplitTestSizes,
          n_images \in 1..MaxImages :
        LET a == [extension |-> extension, perform_validation |-> pv,
                  use_sampling |-> sample_to_value > 0,
                  has_dir |-> n_gen >= 0,
                  sample_to_value |-> sample_to_value,
                  n_gen |-> IF n_gen >= 0 THEN n_gen ELSE 0,
                  test_size_pct |-> pct, n_images |-> n_images]
            branch == extension_branch(extension)
            X == dataset_images(n_images)
            y == dataset_labels(n_images)
            n_test == n_test_of(n_images, pct)
        IN /\ sargs' = a
           /\ IF branch = "image"
              THEN /\ split_possible(n_images, pct)
                   /\ \E perm \in shuffled_indices(n_images) :
                         LET Xs == train_test_split(X, perm, n_test)
                             ys == train_test_split(y, perm, n_test)
                         IN split_locals' =
                               [X_train |-> Xs.train, y_train |-> ys.train,
                                X_val |-> Xs.test, y_val |-> ys.test,
                                train_data |-> data_frame(Xs.train, ys.train)]
                   /\ spc' = "split"
                   /\ UNCHANGED train_val_test_split_dict
              ELSE IF branch = "nifti"
              THEN /\ nifti_split_dicts(a) # {}
                   /\ train_val_test_split_dict' \in nifti_split_dicts(a)
                   /\ spc' = "done"
                   /\ UNCHANGED split_locals
              ELSE /\ spc' = "raised"
                   /\ UNCHANGED <<split_locals, train_val_test_split_dict>>

\* train_test_split raises ValueError when a part would be empty.
instantiate_train_val_test_datasets_split_raises ==
    /\ spc = "idle"
    /\ UNCHANGED notSplit
    /\ \E extension \in Extensions, pct \in SplitTestSizes,
          n_images \in 1..MaxImages :
        /\ extension_branch(extension) = "image"
        /\ ~split_possible(n_images, pct)
        /\ sargs' = [NoSplitArgs EXCEPT !.extension = extension,
                                        !.test_size_pct = pct,
                                        !.n_images = n_images]
    /\ spc' = "raised"
    /\ UNCHANGED <<split_locals, train_val_test_split_dict>>

\* Lines 628-649: the generated images of the directory "_dir_" are sampled
\* and appended to the train frame.
instantiate_train_val_test_datasets_generated ==
    /\ spc = "split"
    /\ UNCHANGED notSplit
    /\ IF sargs.has_dir
       THEN LET pos_data == rows_of_class(split_locals.train_data, 1)
                offset == Abs(Len(pos_data) - sargs.n_gen)
            IN IF offset > sargs.n_gen
               THEN /\ spc' = "raised"
                    /\ UNCHANGED split_locals
               ELSE /\ \E sampled_gen_data \in
                          sample_without_replacement(gen_data(sargs.n_gen), offset) :
                          split_locals' =
                             [split_locals EXCEPT !.train_data =
                                 split_locals.train_data \o sampled_gen_data]
                    /\ spc' = "generated"
       ELSE /\ spc' = "generated"
            /\ UNCHANGED split_locals
    /\ UNCHANGED <<sargs, train_val_test_split_dict>>

\* Lines 651-675: the optional resampling of the train frame.
instantiate_train_val_test_datasets_sampling ==
    /\ spc = "generated"
    /\ UNCHANGED notSplit
    /\ IF sargs.use_sampling
       THEN \E resampled_data \in
                  (IF sargs.has_dir
                   THEN random_under_sample(split_locals.train_data)
                   ELSE groupby_sample(split_locals.train_data,
                                       sargs.sample_to_value)) :
               split_locals' =
                  [split_locals EXCEPT !.train_data = resampled_data,
                                       !.X_train = frame_images(resampled_data),
                                       !.y_train = frame_labels(resampled_data)]
       ELSE UNCHANGED split_locals
    /\ spc' = "sampled"
    /\ UNCHANGED <<sargs, train_val_test_split_dict>>

\* Lines 677-692 and 752-757: the datasets and the dictionary returned.
instantiate_train_val_test_datasets_datasets ==
    /\ spc = "sampled"
    /\ UNCHANGED notSplit
    /\ LET the_train_dataset ==
              make_image_dataset(split_locals.X_train, split_locals.y_train,
                                 "train_transforms")
           the_val_dataset ==
              make_image_dataset(split_locals.X_val, split_locals.y_val,
                                 "eval_transforms")
       IN train_val_test_split_dict' =
             IF perform_validation(sargs, TRUE)
             THEN [k \in {"train", "val"} |->
                     IF k = "train" THEN the_train_dataset ELSE the_val_dataset]
             ELSE [k \in {"train"} |-> the_train_dataset]
    /\ spc' = "done"
    /\ UNCHANGED <<sargs, split_locals>>

(***************************************************************************)
(* transform_labels_to_metaclass                                           *)
(*                                                                         *)
(* Strings are sequences of characters, so that Python's "in" on strings   *)
(* is the test for a substring.                                            *)
(***************************************************************************)
Str_Pneumonia == <<"P", "n", "e", "u", "m", "o", "n", "i", "a">>

Str_Mass == <<"M", "a", "s", "s">>

Str_Effusion == <<"E", "f", "f", "u", "s", "i", "o", "n">>

Str_NoFinding == <<"N", "o", " ", "F", "i", "n", "d", "i", "n", "g">>

Str_Normal == <<"N", "o", "r", "m", "a", "l">>

Str_NonPrefix == <<"N", "o", "n", "-">>

\* The None object where a string is expected.
StrNone == <<"None">>

Str_Separator == <<"|">>

\* The findings of the table, in the order the labels list them.
FindingNames == <<Str_Effusion, Str_Mass, Str_Pneumonia>>

\* "|".join(findings) for the findings at the positions ks, in order.
RECURSIVE join_findings(_, _)
join_findings(ks, from) ==
    IF from > Len(FindingNames) THEN << >>
    ELSE IF from \in ks
         THEN IF \E k \in ks : k > from
              THEN FindingNames[from] \o Str_Separator
                      \o join_findings(ks, from + 1)
              ELSE FindingNames[from]
         ELSE join_findings(ks, from + 1)

\* The labels of the raw table: "No Finding" or the findings joined by "|".
RawLabels ==
    {Str_NoFinding} \cup
    {join_findings(ks, 1) :
        ks \in {K \in SUBSET (1..Len(FindingNames)) :
                   K # {} /\ Cardinality(K) <= MaxFindings}}

\* x in s, for strings.
str_contains(s, x) ==
    \E i \in 0..(Len(s) - Len(x)) : SubSeq(s, i + 1, i + Len(x)) = x

\* _transform_to_metaclass(x, positive_class, negative_class)
transform_to_metaclass(x, positive_class, negative_class) ==
    LET negative == IF negative_class = StrNone
                    THEN Str_NonPrefix \o positive_class
                    ELSE negative_class
    IN IF str_contains(x, positive_class) THEN positive_class ELSE negative

NoMetaArgs == [positive_class |-> StrNone, negative_class |-> StrNone, drop |-> TRUE]

NoColumn == << >>

MetaIdle ==
    /\ mpc = "idle"
    /\ margs = NoMetaArgs
    /\ df = [target |-> NoColumn, old_target |-> NoColumn]
    /\ mcalls = 0

\* A raw table of one to MaxDfRows rows.
MetaInit ==
    /\ mpc = "ready"
    /\ margs = NoMetaArgs
    /\ df \in [target : UNION {[1..n -> RawLabels] : n \in 1..MaxDfRows},
               old_target : {NoColumn}]
    /\ mcalls = 0

\* Lines 161-190: the old target column is kept and the target column is
\* transformed.
transform_labels_to_metaclass_apply ==
    /\ mpc = "ready"
    /\ UNCHANGED notMeta
    /\ mcalls < MaxCalls
    /\ \E positive_class \in {Str_Pneumonia, Str_Mass},
          negative_class \in {StrNone, Str_Normal},
          drop \in BOOLEAN :
        /\ margs' = [positive_class |-> positive_class,
                     negative_class |-> negative_class, drop |-> drop]
        /\ df' = [old_target |-> df.target,
                  target |-> [i \in 1..Len(df.target) |->
                                 transform_to_metaclass(df.target[i],
                                                        positive_class,
                                                        negative_class)]]
    /\ mpc' = "transformed"
    /\ UNCHANGED mcalls

\* Lines 191-198: the old target column is dropped, the frame is returned.
transform_labels_to_metaclass_return ==
    /\ mpc = "transformed"
    /\ UNCHANGED notMeta
    /\ df' = IF margs.drop THEN [df EXCEPT !.old_target = NoColumn] ELSE df
    /\ mcalls' = mcalls + 1
    /\ mpc' = "ready"
    /\ UNCHANGED margs

NextMeta ==
    \/ transform_labels_to_metaclass_apply
    \/ transform_labels_to_metaclass_return

(***************************************************************************)
(* instantiate_image_dataset and combine_datasets                          *)
(***************************************************************************)
DatasetNames == {"nih", "cxr14", "mimic-cxr", "pediatrics", "ixi", "mimic"}

\* Mutant: "mimic", the name the error message gives, is accepted too.
loader_of_accepts_mimic(dataset_name) ==
    IF dataset_name = "nih" \/ dataset_name = "cxr14" THEN "load_nih_dataset"
    ELSE IF dataset_name = "mimic-cxr" \/ dataset_name = "mimic"
    THEN "load_mimic_dataset"
    ELSE IF dataset_name = "pediatrics" THEN "load_pediatrics_dataset"
    ELSE IF dataset_name = "ixi" THEN "load_ixi_dataset"
    ELSE None

\* Lines 505-528: the loader of a dataset name, None where the name raises
\* ValueError.
loader_of(dataset_name) ==
    IF dataset_name = "nih" \/ dataset_name = "cxr14" THEN "load_nih_dataset"
    ELSE IF dataset_name = "mimic-cxr" THEN "load_mimic_dataset"
    ELSE IF dataset_name = "pediatrics" THEN "load_pediatrics_dataset"
    ELSE IF dataset_name = "ixi" THEN "load_ixi_dataset"
    ELSE None

\* The None object where a dataset is expected.
NoneDataset == [image_files |-> << >>, labels |-> << >>, transform |-> None]

\* A dataset of n images a loader returns for a split.
loader_dataset(tag, split, n, transform) ==
    [image_files |-> [i \in 1..n |-> <<tag, split, i>>],
     labels |-> [i \in 1..n |-> i % 2],
     transform |-> transform]

\* What a loader returns: (train, val, test), or (train, test).
loader_result(tag, n, with_val, train_transform, eval_transform) ==
    IF with_val
    THEN <<loader_dataset(tag, "train", n, train_transform),
           loader_dataset(tag, "val", n, train_transform),
           loader_dataset(tag, "test", n, eval_transform)>>
    ELSE <<loader_dataset(tag, "train", n, train_transform),
           loader_dataset(tag, "test", n, eval_transform)>>

\* Mutant: the additional dataset's files and labels come first.
concat_datasets_prepend(dataset, a_data, transform) ==
    [image_files |-> a_data.image_files \o dataset.image_files,
     labels |-> a_data.labels \o dataset.labels,
     transform |-> transform]

\* ImageDataset(image_files=list(d.image_files) + list(a.image_files),
\*              labels=list(d.labels) + list(a.labels), transform=transform)
concat_datasets(dataset, a_data, transform) ==
    [image_files |-> dataset.image_files \o a_data.image_files,
     labels |-> dataset.labels \o a_data.labels,
     transform |-> transform]

NoImageArgs == [name |-> None, has_additional |-> FALSE, dataset_configs |-> 0]

ImageInit ==
    /\ ipc = "idle"
    /\ iargs = NoImageArgs
    /\ invoked = << >>
    /\ loaded_datasets = << >>
    /\ additional = << >>
    /\ train_dataset = NoneDataset
    /\ val_dataset = NoneDataset
    /\ test_dataset = NoneDataset
    /\ returned = << >>

\* Lines 489-528: the loader of the dataset name is called, or ValueError is
\* raised.
instantiate_image_dataset_load ==
    /\ ipc = "idle"
    /\ UNCHANGED notImage
    /\ \E dataset_name \in DatasetNames, n_configs \in -1..MaxAdditional,
          n \in 0..MaxDatasetLen, with_val \in BOOLEAN :
        LET loader == loader_of(dataset_name) IN
        /\ iargs' = [name |-> dataset_name,
                     has_additional |-> n_configs >= 0,
                     dataset_configs |-> IF n_configs >= 0 THEN n_configs ELSE 0]
        /\ IF loader = None
           THEN /\ ipc' = "raised"
                /\ UNCHANGED <<invoked, loaded_datasets>>
           ELSE /\ invoked' = Append(invoked, loader)
                /\ loaded_datasets' =
                      loader_result("base", n,
                                    with_val \/ loader = "load_nih_dataset",
                                    "train_transforms", "eval_transforms")
                /\ ipc' = "loaded"
    /\ UNCHANGED <<additional, train_dataset, val_dataset, test_dataset,
                   returned>>

\* Lines 530, 546-547: without additional datasets the loader's result is
\* returned.
instantiate_image_dataset_return ==
    /\ ipc = "loaded"
    /\ UNCHANGED notImage
    /\ ~iargs.has_additional
    /\ returned' = loaded_datasets
    /\ ipc' = "done"
    /\ UNCHANGED <<iargs, invoked, loaded_datasets, additional, train_dataset,
                   val_dataset, test_dataset>>

\* Lines 530-539 and 550-559: combine_datasets is called with the loaded
\* train and test datasets and the validation dataset, or None.
combine_datasets_call ==
    /\ ipc = "loaded"
    /\ UNCHANGED notImage
    /\ iargs.has_additional
    /\ train_dataset' = loaded_datasets[1]
    /\ test_dataset' = loaded_datasets[Len(loaded_datasets)]
    /\ val_dataset' = IF Len(loaded_datasets) = 2 THEN NoneDataset
                      ELSE loaded_datasets[2]
    /\ ipc' = "combining"
    /\ UNCHANGED <<iargs, invoked, loaded_datasets, additional, returned>>

\* Lines 560-591: one additional dataset is loaded and appended to the train
\* and test datasets and, when it has one, its validation dataset to the
\* validation dataset; None has no image_files (AttributeError).
combine_datasets_step ==
    /\ ipc = "combining"
    /\ UNCHANGED notImage
    /\ Len(additional) < iargs.dataset_configs
    /\ \E n \in 0..MaxDatasetLen, with_val \in BOOLEAN :
        LET full_datasets ==
                loader_result(<<"additional", Len(additional) + 1>>, n, with_val,
                              train_dataset.transform, test_dataset.transform)
            a_train_data == full_datasets[1]
            a_test_data == full_datasets[Len(full_datasets)]
            new_train == concat_datasets(train_dataset, a_train_data,
                                         train_dataset.transform)
            new_test == concat_datasets(test_dataset, a_test_data,
                                        test_dataset.transform)
        IN /\ additional' = Append(additional, full_datasets)
           /\ train_dataset' = new_train
           /\ test_dataset' = new_test
           /\ IF Len(full_datasets) = 3
              THEN IF val_dataset = NoneDataset
                   THEN /\ ipc' = "raised"
                        /\ UNCHANGED val_dataset
                   ELSE /\ val_dataset' =
                              concat_datasets(val_dataset, full_datasets[2],
                                              new_test.transform)
                        /\ ipc' = "combining"
              ELSE /\ ipc' = "combining"
                   /\ UNCHANGED val_dataset
    /\ UNCHANGED <<iargs, invoked, loaded_datasets, returned>>

\* Lines 593 and 540-547: combine_datasets returns [train, val, test] and
\* instantiate_image_dataset returns the datasets of that list.
combine_datasets_return ==
    /\ ipc = "combining"
    /\ UNCHANGED notImage
    /\ Len(additional) = iargs.dataset_configs
    /\ LET combined_datasets == <<train_dataset, val_dataset, test_dataset>> IN
          returned' =
             IF Len(combined_datasets) = 3
             THEN <<combined_datasets[1], combined_datasets[2],
                    combined_datasets[Len(combined_datasets)]>>
             ELSE <<combined_datasets[1],
                    combined_datasets[Len(combined_datasets)]>>
    /\ ipc' = "done"
    /\ UNCHANGED <<iargs, invoked, loaded_datasets, additional, train_dataset,
                   val_dataset, test_dataset>>

NextImage ==
    \/ instantiate_image_dataset_load
    \/ instantiate_image_dataset_return
    \/ combine_datasets_call
    \/ combine_datasets_step
    \/ combine_datasets_return

(***************************************************************************)
(* _log_metrics_to_mlflow and build_report                                  *)
(*                                                                         *)
(* A metrics dictionary is a function from its keys to values; a value     *)
(* carries its Python type, which isinstance(metric, float) looks at.      *)
(***************************************************************************)
MetricNames == {"accuracy", "loss", "roc_auc"}

MetricTypes == {"float", "int", "ndarray", "dict"}

MetricValues == [type : MetricTypes, v : 1..MaxMetricValue]

MetricsDicts ==
    UNION {[names -> MetricValues] : names \in SUBSET MetricNames}

Splits == {"train", "val", "test", ""}

\* Mutant: integers pass the test as well.
is_float_or_int(metric) == metric.type \in {"float", "int"}

\* isinstance(metric, float)
is_float(metric) == metric.type = "float"

\* key_name = "".join([split_key, key])
key_name(split_key, key) == split_key \o key

\* The dictionary logged_metrics the loop over metrics.keys() builds.
logged_metrics_of(metrics, split) ==
    LET split_key == split \o "_"
        kept == {key \in DOMAIN metrics : is_float(metrics[key])}
    IN  [kn \in {key_name(split_key, key) : key \in kept} |->
            metrics[CHOOSE key \in kept : key_name(split_key, key) = kn]]

\* (generate_report and split == "test") or override
wants_report(generate_report, split, override) ==
    (generate_report /\ split = "test") \/ override

\* The keys build_report reads from the metrics it is given; a missing one
\* is a KeyError.
report_keys(split) ==
    {split \o "_roc_auc", split \o "_accuracy", split \o "_loss"}

build_report_raises(logged_metrics, split) ==
    ~(report_keys(split) \subseteq DOMAIN logged_metrics)

NoMlflowArgs ==
    [metrics |-> << >>, split |-> None, epoch |-> 0,
     generate_report |-> FALSE, override |-> FALSE]

MlflowInit ==
    /\ fpc = "idle"
    /\ fargs = NoMlflowArgs
    /\ reports = << >>
    /\ mlflow_log = << >>

\* The state of mlflow and of the reports after _log_metrics_to_mlflow.
log_metrics_to_mlflow(st, metrics, split, ep, generate_report, override) ==
    LET logged_metrics == logged_metrics_of(metrics, split)
        report == wants_report(generate_report, split, override)
    IN  IF st.raised
        THEN st
        ELSE IF report /\ build_report_raises(logged_metrics, split)
        THEN [st EXCEPT !.raised = TRUE]
        ELSE [raised |-> FALSE,
              reports |->
                  IF report
                  THEN Append(st.reports,
                              [metrics |-> logged_metrics, epoch |-> ep,
                               split |-> split])
                  ELSE st.reports,
              mlflow_log |->
                  Append(st.mlflow_log,
                         [metrics |-> logged_metrics, step |-> ep])]

\* mlflow and the reports as they are now.
mlflow_state ==
    [raised |-> FALSE, reports |-> reports, mlflow_log |-> mlflow_log]

MlflowCalls ==
    [metrics : MetricsDicts, split : Splits, epoch : 0..MaxEpochs,
     generate_report : BOOLEAN, override : BOOLEAN]

\* _log_metrics_to_mlflow returns: the metrics are logged, after the report
\* when one is asked for.
_log_metrics_to_mlflow ==
    /\ fpc = "idle"
    /\ \E a \in MlflowCalls :
        LET r == log_metrics_to_mlflow(mlflow_state, a.metrics, a.split,
                                       a.epoch, a.generate_report,
                                       a.override)
        IN  /\ ~r.raised
            /\ fargs' = a
            /\ reports' = r.reports
            /\ mlflow_log' = r.mlflow_log
            /\ fpc' = "returned"
    /\ UNCHANGED notMlflow

\* _log_metrics_to_mlflow raises the KeyError of build_report: nothing is
\* logged.
_log_metrics_to_mlflow_raises ==
    /\ fpc = "idle"
    /\ \E a \in MlflowCalls :
        LET r == log_metrics_to_mlflow(mlflow_state, a.metrics, a.split,
                                       a.epoch, a.generate_report,
                                       a.override)
        IN  /\ r.raised
            /\ fargs' = a
            /\ reports' = r.reports
            /\ mlflow_log' = r.mlflow_log
            /\ fpc' = "raised"
    /\ UNCHANGED notMlflow

NextMlflow ==
    \/ _log_metrics_to_mlflow
    \/ _log_metrics_to_mlflow_raises

(***************************************************************************)
(* prepare_run, train, evaluate and the run of the trainer                  *)
(*                                                                         *)
(* The trainer is an event-driven engine: it counts epochs from 1, fires   *)
(* EPOCH_COMPLETED after each epoch and COMPLETED once at the end of the   *)
(* run, and calls the handlers put on these events.  Loaders are named by  *)
(* their index in the list loaders.                                        *)
(***************************************************************************)
Modes == {"train", "evaluate", "diffusion"}

\* The epochs of a run: short runs, and a run long enough for the default
\* log interval to be more than 1.
LongRun == 2 * DefaultIntervalDivisor

EpochCounts == (1..MaxEpochs) \cup {LongRun}

\* The metrics an evaluator computes, as configured: with or without a loss.
EvaluatorMetrics ==
    {[k \in {"accuracy", "loss"} |-> [type |-> "float", v |-> 1]],
     [k \in {"accuracy"} |-> [type |-> "float", v |-> 1]]}

RunArgs ==
    [mode : Modes, n_loaders : 2..MaxLoaders, max_epochs : EpochCounts,
     log_interval : 0..MaxEpochs, dry_run : BOOLEAN,
     use_early_stopping : BOOLEAN, use_mlflow : BOOLEAN,
     metrics : EvaluatorMetrics]

NoRunArgs ==
    [mode |-> None, n_loaders |-> 0, max_epochs |-> 0, log_interval |-> 0,
     dry_run |-> FALSE, use_early_stopping |-> FALSE, use_mlflow |-> FALSE,
     metrics |-> << >>]

NotPrepared ==
    [kind |-> "none", trainer |-> FALSE, evaluators |-> << >>,
     error |-> None]

Max(a, b) == IF a >= b THEN a ELSE b

\* ignite_cfg.get("log_interval", max(cfg.job.max_epochs // 10, 1)); a
\* log_interval of 0 in the arguments stands for a configuration without one.
log_interval_of(a) ==
    IF a.log_interval = 0
    THEN Max(a.max_epochs \div DefaultIntervalDivisor, 1)
    ELSE a.log_interval

\* loaders[i] of a list of n loaders: the index of the loader.
loader_at(n, i) == IF i < 0 THEN n + i ELSE i

has_loader(n, i) == loader_at(n, i) \in 0..(n - 1)

\* Mutant: the filter of the event is lost and the handler is put on every
\* epoch.
train_handlers_every_epoch(a) ==
    [trainer |->
        <<[event |-> "EPOCH_COMPLETED", every |-> 1,
           handler |-> "log_metrics"],
          [event |-> "COMPLETED", every |-> 1,
           handler |-> "log_test_metrics"],
          [event |-> "EXCEPTION_RAISED", every |-> 1,
           handler |-> "handle_exception_raised"]>>,
     val_evaluator |->
        IF a.use_early_stopping THEN {"early_stopping_handler"} ELSE {}]

\* The handlers train() and add_handlers() register.
train_handlers(a) ==
    [trainer |->
        <<[event |-> "EPOCH_COMPLETED", every |-> log_interval_of(a),
           handler |-> "log_metrics"],
          [event |-> "COMPLETED", every |-> 1,
           handler |-> "log_test_metrics"],
          [event |-> "EXCEPTION_RAISED", every |-> 1,
           handler |-> "handle_exception_raised"]>>,
     val_evaluator |->
        IF a.use_early_stopping THEN {"early_stopping_handler"} ELSE {}]

NoHandlers == [trainer |-> << >>, val_evaluator |-> {}]

\* The handler h is put on the event ev and its filter lets the count pass.
fires(h, ev, count) ==
    \E i \in 1..Len(handlers.trainer) :
        /\ handlers.trainer[i].handler = h
        /\ handlers.trainer[i].event = ev
        /\ count % handlers.trainer[i].every = 0

\* metrics["roc_auc"] = roc_auc
with_roc_auc(metrics) ==
    [k \in DOMAIN metrics \cup {"roc_auc"} |->
        IF k = "roc_auc" THEN [type |-> "float", v |-> 1] ELSE metrics[k]]

\* One evaluator.run(loader), as _log_metrics makes it.
evaluation(evaluator, loader, split, ev) ==
    [evaluator |-> evaluator, loader |-> loader, split |-> split,
     epoch |-> epoch, event |-> ev]

\* What _log_metrics does to mlflow and to the reports after the run of the
\* evaluator.
_log_metrics(st, a, split, override) ==
    IF a.use_mlflow
    THEN log_metrics_to_mlflow(st, with_roc_auc(a.metrics), split, epoch,
                               TRUE, override)
    ELSE st

TrainInit ==
    /\ tpc = "idle"
    /\ targs = NoRunArgs
    /\ handlers = NoHandlers
    /\ epoch = 0
    /\ should_terminate = FALSE
    /\ evaluations = << >>
    /\ mlflow_ended = FALSE
    /\ prepared = NotPrepared

ThreeEvaluators == <<"train_evaluator", "val_evaluator", "test_evaluator">>

\* prepare_run(mode="train"): train() creates the evaluators and registers
\* the handlers; the trainer and the evaluators are returned.
prepare_run_train ==
    /\ tpc = "idle"
    /\ \E a \in RunArgs :
        /\ a.mode = "train"
        /\ targs' = a
        /\ handlers' = train_handlers(a)
    /\ prepared' = [kind |-> "returned", trainer |-> TRUE,
                    evaluators |-> ThreeEvaluators, error |-> None]
    /\ tpc' = "prepared"
    /\ UNCHANGED <<epoch, should_terminate, evaluations, mlflow_ended>>
    /\ UNCHANGED notTrain

\* Mutant: evaluate() is given the first loader.
evaluate_loader_first(n) == loader_at(n, 0)

\* loader=loaders[-1]
evaluate_loader(n) == loader_at(n, -1)

\* prepare_run(mode="evaluate"): evaluate() runs a new evaluator on the last
\* loader and prepare_run returns None.
prepare_run_evaluate ==
    /\ tpc = "idle"
    /\ \E a \in RunArgs :
        LET st == _log_metrics(mlflow_state, a, "", TRUE)
        IN  /\ a.mode = "evaluate"
            /\ ~st.raised
            /\ targs' = a
            /\ evaluations' =
                   Append(evaluations,
                          evaluation("evaluator",
                                     evaluate_loader(a.n_loaders), "",
                                     "prepare_run"))
            /\ reports' = st.reports
            /\ mlflow_log' = st.mlflow_log
    /\ prepared' = [kind |-> "returned", trainer |-> FALSE,
                    evaluators |-> << >>, error |-> None]
    /\ tpc' = "finished"
    /\ UNCHANGED <<handlers, epoch, should_terminate, mlflow_ended>>
    /\ UNCHANGED <<dataVars, fpc, fargs, stepVars, loopVars, transformVars,
                 promptVars>>

\* prepare_run(mode="evaluate") where build_report raises a KeyError after
\* the evaluation.
prepare_run_evaluate_raises ==
    /\ tpc = "idle"
    /\ \E a \in RunArgs :
        LET st == _log_metrics(mlflow_state, a, "", TRUE)
        IN  /\ a.mode = "evaluate"
            /\ st.raised
            /\ targs' = a
            /\ evaluations' =
                   Append(evaluations,
                          evaluation("evaluator",
                                     evaluate_loader(a.n_loaders), "",
                                     "prepare_run"))
    /\ prepared' = [kind |-> "raised", trainer |-> FALSE,
                    evaluators |-> << >>, error |-> "KeyError"]
    /\ tpc' = "finished"
    /\ UNCHANGED <<handlers, epoch, should_terminate, mlflow_ended>>
    /\ UNCHANGED notTrain

\* prepare_run with any other mode raises ValueError.
prepare_run_raises ==
    /\ tpc = "idle"
    /\ \E a \in RunArgs :
        /\ a.mode \notin {"train", "evaluate"}
        /\ targs' = a
    /\ prepared' = [kind |-> "raised", trainer |-> FALSE,
                    evaluators |-> << >>, error |-> "ValueError"]
    /\ tpc' = "finished"
    /\ UNCHANGED <<handlers, epoch, should_terminate, evaluations,
                   mlflow_ended>>
    /\ UNCHANGED notTrain

\* trainer.run(loaders[0], max_epochs) starts.
Engine_run ==
    /\ tpc = "prepared"
    /\ tpc' = "loop"
    /\ epoch' = 0
    /\ should_terminate' = FALSE
    /\ UNCHANGED <<targs, handlers, evaluations, mlflow_ended, prepared>>
    /\ UNCHANGED notTrain

\* The trainer is not done and runs one more epoch.
Engine_epoch ==
    /\ tpc = "loop"
    /\ epoch < targs.max_epochs
    /\ ~should_terminate
    /\ epoch' = epoch + 1
    /\ tpc' = "epoch_completed"
    /\ UNCHANGED <<targs, handlers, should_terminate, evaluations,
                   mlflow_ended, prepared>>
    /\ UNCHANGED notTrain

\* An iteration of the epoch raises: the engine fires EXCEPTION_RAISED,
\* handle_exception_raised ends the mlflow run, and the run is over.
handle_exception_raised ==
    /\ tpc = "loop"
    /\ epoch < targs.max_epochs
    /\ ~should_terminate
    /\ fires("handle_exception_raised", "EXCEPTION_RAISED", 1)
    /\ epoch' = epoch + 1
    /\ mlflow_ended' = TRUE
    /\ tpc' = "failed"
    /\ UNCHANGED <<targs, handlers, should_terminate, evaluations, prepared>>
    /\ UNCHANGED notTrain

\* EPOCH_COMPLETED(every=log_interval): log_metrics evaluates on the train
\* loader, unless the job is a dry run, and then on the validation loader.
\* The early stopping put on the validation evaluator may terminate the
\* trainer.
log_metrics ==
    /\ tpc = "epoch_completed"
    /\ fires("log_metrics", "EPOCH_COMPLETED", epoch)
    /\ LET train_run ==
               IF ~targs.dry_run
               THEN <<evaluation("train_evaluator",
                                 loader_at(targs.n_loaders, 0), "train",
                                 "EPOCH_COMPLETED")>>
               ELSE << >>
           st1 == IF ~targs.dry_run
                  THEN _log_metrics(mlflow_state, targs, "train", FALSE)
                  ELSE mlflow_state
           st2 == _log_metrics(st1, targs, "val", FALSE)
       IN  /\ evaluations' =
                  evaluations \o train_run \o
                  <<evaluation("val_evaluator",
                               loader_at(targs.n_loaders, 1), "val",
                               "EPOCH_COMPLETED")>>
           /\ reports' = st2.reports
           /\ mlflow_log' = st2.mlflow_log
    /\ should_terminate' \in
           IF "early_stopping_handler" \in handlers.val_evaluator
           THEN BOOLEAN
           ELSE {FALSE}
    /\ tpc' = "loop"
    /\ UNCHANGED <<targs, handlers, epoch, mlflow_ended, prepared>>
    /\ UNCHANGED <<dataVars, fpc, fargs, stepVars, loopVars, transformVars,
                 promptVars>>

\* EPOCH_COMPLETED after an epoch the filter of log_metrics does not let
\* pass: no handler is called.
Engine_epoch_completed ==
    /\ tpc = "epoch_completed"
    /\ ~fires("log_metrics", "EPOCH_COMPLETED", epoch)
    /\ tpc' = "loop"
    /\ UNCHANGED <<targs, handlers, epoch, should_terminate, evaluations,
                   mlflow_ended, prepared>>
    /\ UNCHANGED notTrain

\* The run is over: all the epochs are done or the trainer was terminated.
run_is_over == epoch >= targs.max_epochs \/ should_terminate

\* Mutant: the test loader is taken from the end of the list.
test_loader_last(n) == loader_at(n, -1)

\* test_loader = loaders[2]
test_loader(n) == loader_at(n, 2)

\* COMPLETED: log_test_metrics evaluates on loaders[2].
log_test_metrics ==
    /\ tpc = "loop"
    /\ run_is_over
    /\ fires("log_test_metrics", "COMPLETED", 1)
    /\ has_loader(targs.n_loaders, 2)
    /\ LET st == _log_metrics(mlflow_state, targs, "test", FALSE)
       IN  /\ ~st.raised
           /\ reports' = st.reports
           /\ mlflow_log' = st.mlflow_log
    /\ evaluations' =
           Append(evaluations,
                  evaluation("test_evaluator", test_loader(targs.n_loaders),
                             "test", "COMPLETED"))
    /\ tpc' = "done"
    /\ UNCHANGED <<targs, handlers, epoch, should_terminate, mlflow_ended,
                   prepared>>
    /\ UNCHANGED <<dataVars, fpc, fargs, stepVars, loopVars, transformVars,
                 promptVars>>

\* COMPLETED where log_test_metrics raises: the IndexError of loaders[2] when
\* there are two loaders, before the evaluator is run, or the KeyError of
\* build_report after it.  The engine hands the error to
\* handle_exception_raised.
log_test_metrics_raises ==
    /\ tpc = "loop"
    /\ run_is_over
    /\ fires("log_test_metrics", "COMPLETED", 1)
    /\ IF has_loader(targs.n_loaders, 2)
       THEN /\ _log_metrics(mlflow_state, targs, "test", FALSE).raised
            /\ evaluations' =
                   Append(evaluations,
                          evaluation("test_evaluator",
                                     test_loader(targs.n_loaders), "test",
                                     "COMPLETED"))
       ELSE UNCHANGED evaluations
    /\ mlflow_ended' = TRUE
    /\ tpc' = "failed"
    /\ UNCHANGED <<targs, handlers, epoch, should_terminate, prepared>>
    /\ UNCHANGED notTrain

NextTrain ==
    \/ prepare_run_train
    \/ prepare_run_evaluate
    \/ prepare_run_evaluate_raises
    \/ prepare_run_raises
    \/ Engine_run
    \/ Engine_epoch
    \/ handle_exception_raised
    \/ log_metrics
    \/ Engine_epoch_completed
    \/ log_test_metrics
    \/ log_test_metrics_raises

(***************************************************************************)
(* create_diffusion_model_trainer and its training step                     *)
(*                                                                         *)
(* A training step is the sequence of its operations on the model, the     *)
(* optimizer and the gradient scaler, applied in order.                    *)
(***************************************************************************)
\* use_autocast as a keyword argument: not passed, or passed as None, True
\* or False.
KwAutocast == {"absent", "None", "True", "False"}

\* kwargs.get("use_autocast", job_cfg.use_autocast), as `not use_autocast`
\* sees it.
use_autocast_of(a) ==
    IF a.kw_use_autocast = "absent"
    THEN a.job_use_autocast
    ELSE a.kw_use_autocast = "True"

NoStepArgs == [kw_use_autocast |-> "absent", job_use_autocast |-> FALSE]

TrainStates ==
    [training : BOOLEAN, zero_grads : {0}, backwards : {0},
     optimizer_steps : {0}, scaler_updates : {0}]

NoStep == [ops |-> << >>, before |-> None, raised |-> FALSE, timesteps |-> 0]

\* Mutant: the check of use_autocast comes after the model is put in training
\* mode and the gradients are zeroed.
diffusion_train_step_ops_late_check(use_autocast) ==
    IF ~use_autocast
    THEN <<"model.train", "optimizer.zero_grad", "raise">>
    ELSE <<"model.train", "optimizer.zero_grad", "inferer",
           "scaler.scale(loss).backward", "scaler.step(optimizer)",
           "scaler.update", "return">>

\* The operations of diffusion_train_step, in the order of its statements.
diffusion_train_step_ops(use_autocast) ==
    IF ~use_autocast
    THEN <<"raise">>
    ELSE <<"model.train", "optimizer.zero_grad", "inferer",
           "scaler.scale(loss).backward", "scaler.step(optimizer)",
           "scaler.update", "return">>

\* The effect of one operation on the training state.
apply_op(st, op) ==
    CASE op = "model.train" -> [st EXCEPT !.training = TRUE]
      [] op = "model.eval" -> [st EXCEPT !.training = FALSE]
      [] op = "optimizer.zero_grad" ->
             [st EXCEPT !.zero_grads = st.zero_grads + 1]
      [] op = "scaler.scale(loss).backward" ->
             [st EXCEPT !.backwards = st.backwards + 1]
      [] op = "scaler.step(optimizer)" ->
             [st EXCEPT !.optimizer_steps = st.optimizer_steps + 1]
      [] op = "scaler.update" ->
             [st EXCEPT !.scaler_updates = st.scaler_updates + 1]
      [] OTHER -> st

RECURSIVE apply_ops(_, _)
apply_ops(st, ops) ==
    IF ops = << >>
    THEN st
    ELSE apply_ops(apply_op(st, Head(ops)), Tail(ops))

StepInit ==
    /\ dpc = "idle"
    /\ dargs = NoStepArgs
    /\ train_state =
           [training |-> FALSE, zero_grads |-> 0, backwards |-> 0,
            optimizer_steps |-> 0, scaler_updates |-> 0]
    /\ last_step = NoStep
    /\ iteration = 0

\* create_diffusion_model_trainer: use_autocast is read and the engine is
\* made around diffusion_train_step.  The model is in either mode.
create_diffusion_model_trainer ==
    /\ dpc = "idle"
    /\ dargs' \in [kw_use_autocast : KwAutocast, job_use_autocast : BOOLEAN]
    /\ train_state' \in TrainStates
    /\ dpc' = "created"
    /\ UNCHANGED <<last_step, iteration>>
    /\ UNCHANGED notStep

\* The engine calls diffusion_train_step on a batch and the step returns the
\* loss.
diffusion_train_step ==
    /\ dpc = "created"
    /\ iteration < MaxIterations
    /\ LET ops == diffusion_train_step_ops(use_autocast_of(dargs))
       IN  /\ ops[Len(ops)] = "return"
           /\ train_state' = apply_ops(train_state, ops)
           \* torch.randint(0, inferer.scheduler.num_train_timesteps, ...)
           /\ \E t \in 0..(MaxTrainTimesteps - 1) :
                  last_step' = [ops |-> ops, before |-> train_state,
                                raised |-> FALSE, timesteps |-> t]
    /\ iteration' = iteration + 1
    /\ UNCHANGED <<dpc, dargs>>
    /\ UNCHANGED notStep

\* The engine calls diffusion_train_step and the step raises
\* NotImplementedError.
diffusion_train_step_raises ==
    /\ dpc = "created"
    /\ iteration < MaxIterations
    /\ LET ops == diffusion_train_step_ops(use_autocast_of(dargs))
       IN  /\ ops[Len(ops)] = "raise"
           /\ train_state' = apply_ops(train_state, ops)
           /\ last_step' = [ops |-> ops, before |-> train_state,
                            raised |-> TRUE, timesteps |-> 0]
    /\ iteration' = iteration + 1
    /\ dpc' = "raised"
    /\ UNCHANGED dargs
    /\ UNCHANGED notStep

\* sample_from_diffusion_model, between two steps, puts the model in
\* evaluation mode.
sample_from_diffusion_model ==
    /\ dpc = "created"
    /\ train_state.training
    /\ train_state' = apply_op(train_state, "model.eval")
    /\ UNCHANGED <<dpc, dargs, last_step, iteration>>
    /\ UNCHANGED notStep

NextStep ==
    \/ create_diffusion_model_trainer
    \/ diffusion_train_step
    \/ diffusion_train_step_raises
    \/ sample_from_diffusion_model

(***************************************************************************)
(* run_diffusion.train_loop                                                 *)
(***************************************************************************)
LoopArgs ==
    [max_epochs : (0..MaxEpochs) \cup {LongRun},
     n_batches : 0..MaxBatches,
     log_interval : 0..MaxEpochs,
     is_main_process : BOOLEAN,
     use_multi_gpu : BOOLEAN]

NoLoopArgs ==
    [max_epochs |-> 0, n_batches |-> 0, log_interval |-> 0,
     is_main_process |-> FALSE, use_multi_gpu |-> FALSE]

\* Mutant: the last epoch is not singled out.
is_log_epoch_interval_only(e, a) ==
    (e + 1) % log_interval_of(a) = 0

\* (epoch + 1) % log_interval == 0 or epoch == max_epochs - 1
is_log_epoch(e, a) ==
    (e + 1) % log_interval_of(a) = 0 \/ e = a.max_epochs - 1

\* Mutant: the step is counted before it is logged.
logged_step_after_increment(g) == g + 1

\* "step": global_step, in the logs of a batch
logged_step(g) == g

\* The operations of the loop's body for one batch, in the order of its
\* statements.
batch_ops(a) ==
    (IF a.use_multi_gpu THEN <<"sampler.set_epoch">> ELSE << >>) \o
    <<"add_noise", "model", "accelerator.backward",
      "accelerator.clip_grad_norm_", "optimizer.step", "lr_scheduler.step",
      "optimizer.zero_grad", "progress_bar.update", "mlflow.log_metrics">>

\* What the main process does after the batches of epoch e.
epoch_end_events(e, a) ==
    IF a.is_main_process
    THEN (IF is_log_epoch(e, a)
          THEN <<[op |-> "evaluate", epoch |-> e]>>
          ELSE << >>) \o
         (IF is_log_epoch(e, a)
          THEN <<[op |-> "torch.save", epoch |-> e]>>
          ELSE << >>)
    ELSE << >>

LoopInit ==
    /\ ppc = "idle"
    /\ pargs = NoLoopArgs
    /\ loop_epoch = 0
    /\ loop_step = 0
    /\ global_step = 0
    /\ logged_steps = << >>
    /\ last_batch_ops = << >>
    /\ epoch_events = << >>

\* train_loop up to the for loop over the epochs.
train_loop ==
    /\ ppc = "idle"
    /\ \E a \in LoopArgs :
        /\ pargs' = a
        /\ ppc' = IF a.max_epochs > 0 THEN "epoch" ELSE "finished"
    /\ global_step' = 0
    /\ loop_epoch' = 0
    /\ loop_step' = 0
    /\ UNCHANGED <<logged_steps, last_batch_ops, epoch_events>>
    /\ UNCHANGED notLoop

\* One batch of the epoch: the training operations, then the logs with the
\* current global_step, then the increment of global_step.
train_loop_batch ==
    /\ ppc = "epoch"
    /\ loop_step < pargs.n_batches
    /\ last_batch_ops' = batch_ops(pargs)
    /\ logged_steps' = Append(logged_steps, logged_step(global_step))
    /\ global_step' = global_step + 1
    /\ loop_step' = loop_step + 1
    /\ UNCHANGED <<ppc, pargs, loop_epoch, epoch_events>>
    /\ UNCHANGED notLoop

\* The batches of the epoch are done: the main process samples images and
\* saves the model when the epoch is one to log, and the next epoch starts
\* or the loop ends.
train_loop_epoch_end ==
    /\ ppc = "epoch"
    /\ loop_step = pargs.n_batches
    /\ epoch_events' = epoch_events \o epoch_end_events(loop_epoch, pargs)
    /\ loop_epoch' = loop_epoch + 1
    /\ loop_step' = 0
    /\ ppc' = IF loop_epoch + 1 < pargs.max_epochs THEN "epoch" ELSE "finished"
    /\ UNCHANGED <<pargs, global_step, logged_steps, last_batch_ops>>
    /\ UNCHANGED notLoop

\* With use_multi_gpu the state dictionary is read from
\* unwrapped_model.module; whether the model accelerator.unwrap_model returns
\* has a module is not decided by this code.  Where it has none, the
\* AttributeError ends the loop after the sampling and before the saving.
train_loop_epoch_end_raises ==
    /\ ppc = "epoch"
    /\ loop_step = pargs.n_batches
    /\ pargs.is_main_process
    /\ pargs.use_multi_gpu
    /\ is_log_epoch(loop_epoch, pargs)
    /\ epoch_events' =
           Append(epoch_events, [op |-> "evaluate", epoch |-> loop_epoch])
    /\ ppc' = "raised"
    /\ UNCHANGED <<pargs, loop_epoch, loop_step, global_step, logged_steps,
                   last_batch_ops>>
    /\ UNCHANGED notLoop

NextLoop ==
    \/ train_loop
    \/ train_loop_batch
    \/ train_loop_epoch_end
    \/ train_loop_epoch_end_raises

(***************************************************************************)
(* ttk create_transforms                                                    *)
(*                                                                         *)
(* A transform configuration is named by its _target_; instantiate makes    *)
(* the transform of that name.  A dictionary of transforms has a 'load'    *)
(* list and may have a 'train' list.                                       *)
(***************************************************************************)
TransformTargets == {"LoadImage", "RandFlip"}

TransformLists == {<< >>} \cup SeqsUpTo(TransformTargets, MaxTransforms)

TransformDicts ==
    [load : TransformLists, train : TransformLists, has_train : BOOLEAN]

NoDict == [load |-> << >>, train |-> << >>, has_train |-> FALSE]

\* dataset_cfg is None, or has no 'transforms', or has them.
DatasetCfgKinds == {"None", "without_transforms", "with_transforms"}

TransformCalls ==
    {a \in [dataset_cfg : DatasetCfgKinds, cfg_transforms : TransformDicts,
            arg_given : BOOLEAN, arg_transforms : TransformDicts,
            use_transforms : BOOLEAN] :
        /\ a.dataset_cfg # "with_transforms" => a.cfg_transforms = NoDict
        /\ ~a.arg_given => a.arg_transforms = NoDict
        /\ \A d \in {a.cfg_transforms, a.arg_transforms} :
               ~d.has_train => d.train = << >>}

NoTransformArgs ==
    [dataset_cfg |-> "None", cfg_transforms |-> NoDict, arg_given |-> FALSE,
     arg_transforms |-> NoDict, use_transforms |-> FALSE]

\* transform_dicts if dataset_cfg is None
\* else dataset_cfg.get("transforms", transform_dicts)
has_transform_dicts(a) ==
    IF a.dataset_cfg = "with_transforms" THEN TRUE ELSE a.arg_given

transform_dicts_of(a) ==
    IF a.dataset_cfg = "with_transforms"
    THEN a.cfg_transforms
    ELSE a.arg_transforms

\* instantiate(transform)
instantiate(transform) == [transform |-> transform]

ToTensor == [transform |-> "ToTensor"]

\* __get_monai_transforms
get_monai_transforms(transforms) ==
    [i \in 1..Len(transforms) |-> instantiate(transforms[i])] \o <<ToTensor>>

\* Mutant: transforms is the 'load' list itself, not a copy, and += extends
\* it in place.
load_after_extend_in_place(d, use_transforms) ==
    IF use_transforms THEN d.load \o d.train ELSE d.load

\* transforms = deepcopy(transform_dicts["load"]): the 'load' list of the
\* dictionary after transforms += transform_dicts["train"].
load_after_extend(d, use_transforms) == d.load

\* The list transforms handed to __get_monai_transforms.
transforms_list(d, use_transforms) ==
    IF use_transforms THEN d.load \o d.train ELSE d.load

NotComposed == [kind |-> "None", compose |-> << >>]

TransformInit ==
    /\ xpc = "idle"
    /\ xargs = NoTransformArgs
    /\ transform_dicts = NoDict
    /\ composed = NotComposed

\* create_transforms without a dictionary of transforms returns None.
create_transforms_none ==
    /\ xpc = "idle"
    /\ \E a \in TransformCalls :
        /\ ~has_transform_dicts(a)
        /\ xargs' = a
    /\ composed' = NotComposed
    /\ xpc' = "returned"
    /\ UNCHANGED transform_dicts
    /\ UNCHANGED notTransform

\* create_transforms returns the composition.
create_transforms ==
    /\ xpc = "idle"
    /\ \E a \in TransformCalls :
        LET d == transform_dicts_of(a)
        IN  /\ has_transform_dicts(a)
            /\ a.use_transforms => d.has_train
            /\ xargs' = a
            /\ transform_dicts' =
                   [d EXCEPT !.load = load_after_extend(d, a.use_transforms)]
            /\ composed' =
                   [kind |-> "Compose",
                    compose |->
                       get_monai_transforms(
                           transforms_list(d, a.use_transforms))]
    /\ xpc' = "returned"
    /\ UNCHANGED notTransform

\* create_transforms with use_transforms and a dictionary without 'train':
\* transform_dicts["train"] raises.
create_transforms_raises ==
    /\ xpc = "idle"
    /\ \E a \in TransformCalls :
        LET d == transform_dicts_of(a)
        IN  /\ has_transform_dicts(a)
            /\ a.use_transforms
            /\ ~d.has_train
            /\ xargs' = a
            /\ transform_dicts' = d
    /\ composed' = NotComposed
    /\ xpc' = "raised"
    /\ UNCHANGED notTransform

NextTransform ==
    \/ create_transforms_none
    \/ create_transforms
    \/ create_transforms_raises

(***************************************************************************)
(* apply_label_to_text_prompts                                              *)
(*                                                                         *)
(* Strings are sequences of characters; a row x is the sequence of its     *)
(* 0/1 values, in the order of the class columns.                          *)
(***************************************************************************)
Str_Hernia == <<"H", "e", "r", "n", "i", "a">>

\* The class columns of a row, in their order (x.index).
PromptColumns ==
    <<Str_Effusion, Str_Hernia, Str_Mass, Str_NoFinding, Str_Pneumonia>>

\* "A photo of a lung xray".split(" ")
DefaultBase ==
    <<<<"A">>, <<"p", "h", "o", "t", "o">>, <<"o", "f">>, <<"a">>,
      <<"l", "u", "n", "g">>, <<"x", "r", "a", "y">>>>

\* The bases a caller passes: a list of words, which may be empty.
GivenBases ==
    {<<<<"C", "h", "e", "s", "t">>, <<"X", "R", "A", "Y">>>>,
     <<<<"A", "n">>, <<"x", "R", "a", "y">>, <<"o", "f">>,
       <<"L", "u", "n", "g", "s">>>>,
     << >>}

PromptCalls ==
    [x : [1..Len(PromptColumns) -> {0, 1}],
     base_given : BOOLEAN,
     base : GivenBases \cup {DefaultBase}]

Str_depicting == <<"d", "e", "p", "i", "c", "t", "i", "n", "g">>

Str_visible == <<"v", "i", "s", "i", "b", "l", "e">>

Str_and == <<"a", "n", "d">>

UppercaseLetters ==
    <<"A", "B", "C", "D", "E", "F", "G", "H", "I", "J", "K", "L", "M", "N",
      "O", "P", "Q", "R", "S", "T", "U", "V", "W", "X", "Y", "Z">>

LowercaseLetters ==
    <<"a", "b", "c", "d", "e", "f", "g", "h", "i", "j", "k", "l", "m", "n",
      "o", "p", "q", "r", "s", "t", "u", "v", "w", "x", "y", "z">>

\* str.lower()
str_lower(s) ==
    [i \in 1..Len(s) |->
        IF \E k \in 1..Len(UppercaseLetters) : UppercaseLetters[k] = s[i]
        THEN LowercaseLetters[CHOOSE k \in 1..Len(UppercaseLetters) :
                                  UppercaseLetters[k] = s[i]]
        ELSE s[i]]

\* sep.join(words)
RECURSIVE str_join(_, _)
str_join(sep, words) ==
    IF words = << >>
    THEN << >>
    ELSE IF Len(words) = 1
         THEN words[1]
         ELSE words[1] \o sep \o str_join(sep, Tail(words))

\* len(s.split(c)): one more than the occurrences of the character c.
len_split(s, c) == Cardinality({i \in 1..Len(s) : s[i] = c}) + 1

\* s.replace(c, "")
str_remove(s, c) == SelectSeq(s, LAMBDA ch : ch # c)

\* s[:-1]
str_drop_last(s) == IF s = << >> THEN s ELSE SubSeq(s, 1, Len(s) - 1)

\* list.insert(i, v) for a negative or a positive index i.
list_insert(l, i, v) ==
    LET at == IF i < 0
              THEN (IF Len(l) + i < 0 THEN 0 ELSE Len(l) + i)
              ELSE (IF i > Len(l) THEN Len(l) ELSE i)
    IN  SubSeq(l, 1, at) \o <<v>> \o SubSeq(l, at + 1, Len(l))

\* sum(x.values)
RECURSIVE sum_values(_)
sum_values(x) == IF x = << >> THEN 0 ELSE Head(x) + sum_values(Tail(x))

NoFindingColumn ==
    CHOOSE i \in 1..Len(PromptColumns) : PromptColumns[i] = Str_NoFinding

\* Mutant: only a row without any class gets the base prompt.
returns_base_prompt_sum_only(x) == sum_values(x) = 0

\* x["No Finding"] == 1 or sum(x.values) == 0
returns_base_prompt(x) == x[NoFindingColumn] = 1 \/ sum_values(x) = 0

\* classes: x.index[i] + "," for the entries of x equal to 1, in order.
RECURSIVE classes_of(_, _)
classes_of(x, i) ==
    IF i > Len(x)
    THEN << >>
    ELSE (IF x[i] = 1 THEN <<PromptColumns[i] \o <<",">>>> ELSE << >>) \o
         classes_of(x, i + 1)

\* Mutant: "and" is put after the first class.
insert_and_after_first(classes) ==
    IF Len(classes) >= 2 THEN list_insert(classes, 1, Str_and) ELSE classes

\* if len(classes) >= 2: classes.insert(-1, "and")
insert_and(classes) ==
    IF Len(classes) >= 2 THEN list_insert(classes, -1, Str_and) ELSE classes

\* The prompt of a row that does not get the base prompt.
prompt_with_classes(x, base) ==
    LET words == base \o <<Str_depicting, Str_visible>> \o
                 insert_and(classes_of(x, 1))
        joined == str_lower(str_join(<<" ">>, words))
    IN  IF len_split(joined, ",") = 3
        THEN str_remove(joined, ",")
        ELSE str_drop_last(joined)

\* base as the function uses it.
base_of(a) == IF ~a.base_given THEN DefaultBase ELSE a.base

NoPromptArgs ==
    [x |-> [i \in 1..Len(PromptColumns) |-> 0], base_given |-> FALSE,
     base |-> DefaultBase]

PromptInit ==
    /\ qpc = "idle"
    /\ qargs = NoPromptArgs
    /\ prompt = << >>

\* apply_label_to_text_prompts returns the base prompt.
apply_label_to_text_prompts_base ==
    /\ qpc = "idle"
    /\ \E a \in PromptCalls :
        /\ ~a.base_given => a.base = DefaultBase
        /\ returns_base_prompt(a.x)
        /\ qargs' = a
        /\ prompt' = str_lower(str_join(<<" ">>, base_of(a)))
    /\ qpc' = "returned"
    /\ UNCHANGED notPrompt

\* apply_label_to_text_prompts returns the prompt that names the classes.
apply_label_to_text_prompts ==
    /\ qpc = "idle"
    /\ \E a \in PromptCalls :
        /\ ~a.base_given => a.base = DefaultBase
        /\ ~returns_base_prompt(a.x)
        /\ qargs' = a
        /\ prompt' = prompt_with_classes(a.x, base_of(a))
    /\ qpc' = "returned"
    /\ UNCHANGED notPrompt

NextPrompt ==
    \/ apply_label_to_text_prompts_base
    \/ apply_label_to_text_prompts

RunInit ==
    /\ MlflowInit /\ TrainInit /\ StepInit /\ LoopInit /\ TransformInit
    /\ PromptInit

Init == LoadInit /\ SplitInit /\ MetaIdle /\ ImageInit /\ RunInit

InitMeta == LoadInit /\ SplitInit /\ MetaInit /\ ImageInit /\ RunInit

SpecMeta == InitMeta /\ [][NextMeta]_vars

SpecImage == Init /\ [][NextImage]_vars

SpecLoad == Init /\ [][NextLoad]_vars

NextSplit ==
    \/ instantiate_train_val_test_datasets_split
    \/ instantiate_train_val_test_datasets_split_raises
    \/ instantiate_train_val_test_datasets_generated
    \/ instantiate_train_val_test_datasets_sampling
    \/ instantiate_train_val_test_datasets_datasets

SpecSplit == Init /\ [][NextSplit]_vars

SpecMlflow == Init /\ [][NextMlflow]_vars

SpecTrain == Init /\ [][NextTrain]_vars

SpecStep == Init /\ [][NextStep]_vars

SpecLoop == Init /\ [][NextLoop]_vars

SpecTransform == Init /\ [][NextTransform]_vars

SpecPrompt == Init /\ [][NextPrompt]_vars

(***************************************************************************)
(* Properties of the loaders.                                              *)
(***************************************************************************)
NoDuplicates(s) == \A i, j \in 1..Len(s) : s[i] = s[j] => i = j

\* The frames a and b hold exactly the rows of the frame all, each once.
IsPartition(a, b, all) ==
    /\ NoDuplicates(a \o b)
    /\ Range(a \o b) = Range(all)

NihFramesBuilt == {"nih_frames", "nih_metadata_returned", "nih_done"}

NihSelected == index_isin(metadata, largs.train_val_list)

\* C1: in load_nih_dataset, before any resampling, the train and validation
\* splits are disjoint and together hold exactly the rows of the metadata
\* whose index is in train_val_list.txt, and the test split holds exactly the
\* rows whose index is in test_list.txt; no listed row is lost or duplicated.
C1_NihSplitKeepsListedRows ==
    /\ lpc = "nih_split" =>
          IsPartition(train_metadata, concat_columns(X_val, y_val), NihSelected)
    /\ (lpc \in NihFramesBuilt /\ ~resampled) =>
          IsPartition(train_metadata, val_metadata, NihSelected)
    /\ lpc \in NihFramesBuilt =>
          /\ NoDuplicates(test_metadata)
          /\ Range(test_metadata) =
                {r \in Range(metadata) : r.idx \in largs.test_list}

C1_Witness ==
    /\ lpc = "nih_done"
    /\ ~resampled
    /\ Len(train_metadata) >= 2
    /\ Len(val_metadata) >= 1
    /\ Len(test_metadata) >= 1

TextSplitDone == {"text_nih_train", "text_frames", "text_done"}

\* C2: resampling touches only the training split: load_nih_dataset applies
\* it iff use_sampling is true and subset_to_positive_class is false,
\* instantiate_text_dataset iff additionally mode is not "evaluate"; the
\* validation and test splits always hold exactly the rows the split selected.
C2_ResamplingOnlyTrain ==
    /\ lpc \in {"nih_train"} \cup NihFramesBuilt =>
          (resampled <=>
              (largs.use_sampling /\ ~largs.subset_to_positive_class))
    /\ lpc \in TextSplitDone =>
          (resampled <=>
              (/\ largs.use_sampling
               /\ ~largs.subset_to_positive_class
               /\ largs.mode # "evaluate"))
    /\ (lpc \in NihFramesBuilt \cup {"text_frames", "text_done"}
          /\ largs.name # "mimic-cxr") =>
          /\ NoDuplicates(val_metadata)
          /\ Range(val_metadata) \subseteq Range(NihSelected)
          /\ Len(val_metadata) = n_test_of(Len(NihSelected), largs.test_size_pct)
          /\ test_metadata = index_isin(metadata, largs.test_list)
          /\ ~resampled => IsPartition(train_metadata, val_metadata, NihSelected)
    /\ (lpc \in {"text_frames", "text_done"} /\ largs.name = "mimic-cxr") =>
          /\ val_metadata = SelectSeq(metadata, LAMBDA r : r.split = "validate")
          /\ test_metadata = SelectSeq(metadata, LAMBDA r : r.split = "test")
          /\ ~resampled =>
                train_metadata = SelectSeq(metadata, LAMBDA r : r.split = "train")

C2_Witness ==
    /\ lpc = "text_done"
    /\ largs.name = "nih"
    /\ resampled
    /\ Len(train_metadata) + Len(val_metadata) > Len(NihSelected)
    /\ Len(val_metadata) >= 1
    /\ Len(test_metadata) >= 1

AllSplitRows ==
    Range(train_metadata) \cup Range(val_metadata) \cup Range(test_metadata)
        \cup Range(X_val)

\* C9: when subset_to_positive_class is true, every row of the train,
\* validation and test splits of load_nih_dataset and of
\* instantiate_text_dataset has the positive_class column equal to 1, where
\* positive_class is the keyword argument if given, else the preprocessing
\* configuration's value, else "Pneumonia".
C9_SubsetOnlyPositiveRows ==
    largs.subset_to_positive_class =>
        LET positive_class ==
                IF largs.kw_positive_class # None THEN largs.kw_positive_class
                ELSE IF largs.cfg_positive_class # None
                     THEN largs.cfg_positive_class
                     ELSE "Pneumonia"
        IN \A r \in AllSplitRows : r.flags[positive_class] = 1

C9_Witness ==
    /\ lpc \in {"nih_done", "text_done"}
    /\ largs.subset_to_positive_class
    /\ Len(train_metadata) >= 1
    /\ Len(val_metadata) >= 1
    /\ Len(test_metadata) >= 1

\* The label the metadata table gives the image file f.
IsTargetOfFile(f, label) ==
    /\ f[1] = "scan_path"
    /\ \E r \in Range(load_metadata(NIH_CLASS_NAMES, NoSplitColumn)) :
          r.idx = f[2] /\ r.target = label

SplitDatasetRows ==
    Range(data_frame(dataset_images(sargs.n_images),
                     dataset_labels(sargs.n_images)))

SplitValRows == Range(data_frame(split_locals.X_val, split_locals.y_val))

\* The rows the train/validation split left in the training split.
SplitOriginalTrainRows == SplitDatasetRows \ SplitValRows

SplitTrainFrame == data_frame(split_locals.X_train, split_locals.y_train)

\* C3: with use_sampling and no "_dir_" key, after the resampling every class
\* present in the training split has exactly sample_to_value rows, each one
\* of that class's original training rows, and the validation split is the
\* one the train/validation split produced.
C3_EveryClassSampledToValue ==
    (spc \in {"sampled", "done"} /\ sargs.use_sampling /\ ~sargs.has_dir) =>
        /\ \A c \in {r.label : r \in SplitOriginalTrainRows} :
              Len(rows_of_class(SplitTrainFrame, c)) = sargs.sample_to_value
        /\ Range(SplitTrainFrame) \subseteq SplitOriginalTrainRows
        /\ split_locals.train_data = SplitTrainFrame
        /\ Len(split_locals.X_val) = Len(split_locals.y_val)
        /\ Len(split_locals.X_val) =
              n_test_of(sargs.n_images, sargs.test_size_pct)
        /\ NoDuplicates(split_locals.X_val)
        /\ SplitValRows \subseteq SplitDatasetRows
        /\ spc = "done" =>
              /\ train_val_test_split_dict["train"].image_files =
                    split_locals.X_train
              /\ train_val_test_split_dict["train"].labels =
                    split_locals.y_train
              /\ "val" \in DOMAIN train_val_test_split_dict =>
                    /\ train_val_test_split_dict["val"].image_files =
                          split_locals.X_val
                    /\ train_val_test_split_dict["val"].labels =
                          split_locals.y_val

C3_Witness ==
    /\ spc = "done"
    /\ sargs.use_sampling
    /\ ~sargs.has_dir
    /\ sargs.sample_to_value = 2
    /\ Cardinality(SplitOriginalTrainRows) = 3
    /\ Len(split_locals.X_train) = 4
    /\ "val" \in DOMAIN train_val_test_split_dict

SupportedExtensions == {".nii.gz", ".jpeg", ".png"}

\* C6: instantiate_train_val_test_datasets raises ValueError for every
\* extension other than ".nii.gz", ".jpeg" and ".png", creating no dataset and
\* returning no split dictionary.
C6_UnsupportedExtensionRaises ==
    (spc # "idle" /\ sargs.extension \notin SupportedExtensions) =>
        /\ spc # "done"
        /\ train_val_test_split_dict = EmptyDict

\* C7: the returned dictionary holds "test" and "train" (and "val" only when
\* perform_validation is passed as true) for ".nii.gz", and "train" and,
\* unless perform_validation is false, "val", and never "test", for ".jpeg"
\* and ".png".
C7_SplitKeysByExtension ==
    (spc = "done" /\ sargs.extension \in SupportedExtensions) =>
        DOMAIN train_val_test_split_dict =
            IF sargs.extension = ".nii.gz"
            THEN {"test", "train"} \cup
                    (IF sargs.perform_validation = "true" THEN {"val"} ELSE {})
            ELSE {"train"} \cup
                    (IF sargs.perform_validation # "false" THEN {"val"} ELSE {})

(***************************************************************************)
(* Properties of transform_labels_to_metaclass.                            *)
(***************************************************************************)
\* The findings a label lists: the parts of the label between the "|".
RECURSIVE findings_of(_)
findings_of(x) ==
    IF \E i \in 1..Len(x) : x[i] = "|"
    THEN LET i == CHOOSE k \in 1..Len(x) :
                     x[k] = "|" /\ \A j \in 1..(k - 1) : x[j] # "|"
         IN {SubSeq(x, 1, i - 1)} \cup findings_of(SubSeq(x, i + 1, Len(x)))
    ELSE {x}

NegativeClassOf(a) ==
    IF a.negative_class = StrNone THEN Str_NonPrefix \o a.positive_class
    ELSE a.negative_class

\* C4: transform_labels_to_metaclass collapses the labels to two classes: the
\* new target of a row is positive_class if the row's original label lists
\* positive_class among its findings and the negative class otherwise, and
\* the target column holds no other value.
C4_LabelsCollapseToMetaclass ==
    mpc = "transformed" =>
        \A i \in 1..Len(df.target) :
            /\ df.target[i] =
                  IF margs.positive_class \in findings_of(df.old_target[i])
                  THEN margs.positive_class
                  ELSE NegativeClassOf(margs)
            /\ df.target[i] \in {margs.positive_class, NegativeClassOf(margs)}

RECURSIVE additional_files(_, _)
additional_files(k, which) ==
    IF k = 0 THEN << >>
    ELSE additional_files(k - 1, which) \o
            additional[k][IF which = 1 THEN 1 ELSE Len(additional[k])].image_files

RECURSIVE additional_labels(_, _)
additional_labels(k, which) ==
    IF k = 0 THEN << >>
    ELSE additional_labels(k - 1, which) \o
            additional[k][IF which = 1 THEN 1 ELSE Len(additional[k])].labels

\* C8: combine_datasets replaces, for each additional dataset in the order of
\* the configuration, the train and test datasets by ones whose image_files
\* and labels are the previous ones followed by the additional dataset's;
\* image_files and labels have the same length in each split, the earlier
\* pairs keep their positions and the base transforms are retained.
C8_CombineAppendsInOrder ==
    ipc = "combining" \/ (ipc = "done" /\ iargs.has_additional) =>
        LET base_train == loaded_datasets[1]
            base_test == loaded_datasets[Len(loaded_datasets)]
            k == Len(additional)
        IN /\ train_dataset.image_files =
                 base_train.image_files \o additional_files(k, 1)
           /\ train_dataset.labels =
                 base_train.labels \o additional_labels(k, 1)
           /\ test_dataset.image_files =
                 base_test.image_files \o additional_files(k, 0)
           /\ test_dataset.labels =
                 base_test.labels \o additional_labels(k, 0)
           /\ train_dataset.transform = base_train.transform
           /\ test_dataset.transform = base_test.transform
           /\ \A d \in {train_dataset, val_dataset, test_dataset} :
                 Len(d.image_files) = Len(d.labels)
           /\ ipc = "done" =>
                 /\ k = iargs.dataset_configs
                 /\ returned[1] = train_dataset
                 /\ returned[Len(returned)] = test_dataset

C8_Witness ==
    /\ ipc = "done"
    /\ Len(additional) = 2
    /\ Len(loaded_datasets[1].image_files) >= 1
    /\ Len(additional[1][1].image_files) >= 1
    /\ Len(additional[2][1].image_files) >= 1
    /\ val_dataset # NoneDataset
    /\ Len(val_dataset.image_files) > Len(loaded_datasets[2].image_files)

(***************************************************************************)
(* Properties of the training run.                                         *)
(***************************************************************************)
\* The evaluations made by the handlers of EPOCH_COMPLETED, in order.
PeriodicEvaluations ==
    SelectSeq(evaluations, LAMBDA r : r.event = "EPOCH_COMPLETED")

TestEvaluations ==
    SelectSeq(evaluations, LAMBDA r : r.evaluator = "test_evaluator")

\* The interval the claim gives: the configured one, else a tenth of the
\* epochs and at least 1.
ClaimedLogInterval ==
    IF targs.log_interval # 0
    THEN targs.log_interval
    ELSE IF targs.max_epochs \div 10 >= 1
         THEN targs.max_epochs \div 10
         ELSE 1

\* The evaluations the claim gives for the completed epochs 1..e.
RECURSIVE ClaimedPeriodic(_)
ClaimedPeriodic(e) ==
    IF e = 0
    THEN << >>
    ELSE ClaimedPeriodic(e - 1) \o
         (IF e % ClaimedLogInterval = 0
          THEN (IF targs.dry_run
                THEN << >>
                ELSE <<[evaluator |-> "train_evaluator", loader |-> 0,
                        split |-> "train", epoch |-> e,
                        event |-> "EPOCH_COMPLETED"]>>) \o
               <<[evaluator |-> "val_evaluator", loader |-> 1,
                  split |-> "val", epoch |-> e,
                  event |-> "EPOCH_COMPLETED"]>>
          ELSE << >>)

\* C11: in a run set up by train(), once the handlers of EPOCH_COMPLETED are
\* through with epoch e, the periodic evaluations are exactly, for each
\* completed epoch divisible by log_interval and in order, one run of the
\* train evaluator on loaders[0] (none in a dry run) followed by one run of
\* the validation evaluator on loaders[1]; the epochs not divisible by
\* log_interval add no evaluation.
C11_PeriodicEvaluationEveryLogInterval ==
    /\ tpc \in {"loop", "done"} =>
           PeriodicEvaluations = ClaimedPeriodic(epoch)
    /\ tpc = "epoch_completed" =>
           PeriodicEvaluations = ClaimedPeriodic(epoch - 1)

\* A long run with the default interval and train evaluation is over: ten
\* of its twenty epochs were logged.
C11_Witness ==
    /\ tpc = "done"
    /\ targs.log_interval = 0
    /\ targs.max_epochs = LongRun
    /\ ~targs.dry_run
    /\ epoch = LongRun
    /\ Len(PeriodicEvaluations) = LongRun

C13_PrepareRunDispatchesOnMode ==
    /\ (tpc = "prepared" /\ targs.mode = "train") =>
           /\ prepared.kind = "returned"
           /\ prepared.trainer
           /\ prepared.evaluators =
                  <<"train_evaluator", "val_evaluator", "test_evaluator">>
           /\ evaluations = << >>
    /\ (tpc = "finished" /\ targs.mode = "evaluate") =>
           /\ Len(evaluations) = 1
           /\ evaluations[1].loader = targs.n_loaders - 1
           /\ prepared.kind = "returned" =>
                  (~prepared.trainer /\ prepared.evaluators = << >>)
    /\ (tpc = "finished" /\ targs.mode \notin {"train", "evaluate"}) =>
           /\ prepared.kind = "raised"
           /\ prepared.error = "ValueError"
           /\ ~prepared.trainer
           /\ evaluations = << >>
    /\ targs.mode = "train" => tpc # "finished"

\* prepare_run has evaluated on the last of four loaders and returned.
C13_Witness ==
    /\ tpc = "finished"
    /\ targs.mode = "evaluate"
    /\ targs.n_loaders = 4
    /\ prepared.kind = "returned"
    /\ Len(evaluations) = 1

(***************************************************************************)
(* Properties of _log_metrics_to_mlflow.                                   *)
(***************************************************************************)
FloatKeys == {k \in DOMAIN fargs.metrics : fargs.metrics[k].type = "float"}

\* C14: when _log_metrics_to_mlflow returns, it has made one call of
\* mlflow.log_metrics, at step = epoch, whose keys are exactly
\* '<split>_<name>' for the entries of metrics whose value is a float, each
\* with the value of its entry; entries of another type are not logged.
C14_OnlyFloatMetricsAreLogged ==
    fpc = "returned" =>
        /\ Len(mlflow_log) = 1
        /\ mlflow_log[1].step = fargs.epoch
        /\ DOMAIN mlflow_log[1].metrics =
               {fargs.split \o "_" \o k : k \in FloatKeys}
        /\ \A k \in FloatKeys :
               mlflow_log[1].metrics[fargs.split \o "_" \o k] =
                   fargs.metrics[k]

\* A dictionary with a float, an integer and an array was logged.
C14_Witness ==
    /\ fpc = "returned"
    /\ DOMAIN fargs.metrics = {"accuracy", "loss", "roc_auc"}
    /\ fargs.metrics["accuracy"].type = "float"
    /\ fargs.metrics["loss"].type = "int"
    /\ fargs.metrics["roc_auc"].type = "ndarray"
    /\ fargs.epoch > 0
    /\ Len(mlflow_log) = 1

(***************************************************************************)
(* Properties of the diffusion training step.                              *)
(***************************************************************************)
\* use_autocast as the trainer was given it: the keyword argument when it is
\* passed, else the job configuration's.
GivenUseAutocast ==
    CASE dargs.kw_use_autocast = "absent" -> dargs.job_use_autocast
      [] dargs.kw_use_autocast = "True" -> TRUE
      [] OTHER -> FALSE

\* C15: when use_autocast is false, a training step raises
\* NotImplementedError as its first operation: the model's mode, the
\* gradients, the optimizer and the scaler are as before the step, and no
\* step has ever returned; with use_autocast true no step raises.
C15_StepRaisesBeforeAnyTrainingChange ==
    dpc \in {"created", "raised"} =>
        /\ (~GivenUseAutocast /\ iteration > 0) =>
               /\ dpc = "raised"
               /\ last_step.raised
               /\ last_step.ops = <<"raise">>
               /\ train_state = last_step.before
               /\ train_state.zero_grads = 0
               /\ train_state.optimizer_steps = 0
        /\ GivenUseAutocast => dpc # "raised"

\* The step raised on a model in evaluation mode although the job
\* configuration sets use_autocast: the keyword argument said False.
C15_Witness ==
    /\ dpc = "raised"
    /\ dargs.kw_use_autocast = "False"
    /\ dargs.job_use_autocast
    /\ ~train_state.training
    /\ last_step.raised

(***************************************************************************)
(* Properties of run_diffusion.train_loop.                                 *)
(***************************************************************************)
\* The log interval of the loop, as the claim has it (at least 1).
LoopLogInterval ==
    IF pargs.log_interval # 0
    THEN pargs.log_interval
    ELSE IF pargs.max_epochs \div 10 >= 1
         THEN pargs.max_epochs \div 10
         ELSE 1

\* The sampling and saving the claim gives for the epochs 0..(n - 1).
RECURSIVE ClaimedEpochEvents(_)
ClaimedEpochEvents(n) ==
    IF n = 0
    THEN << >>
    ELSE ClaimedEpochEvents(n - 1) \o
         (IF /\ pargs.is_main_process
             /\ \/ n % LoopLogInterval = 0
                \/ n - 1 = pargs.max_epochs - 1
          THEN <<[op |-> "evaluate", epoch |-> n - 1],
                 [op |-> "torch.save", epoch |-> n - 1]>>
          ELSE << >>)

\* C16: the calls of evaluate and of torch.save made so far are exactly, for
\* each finished epoch e with (e + 1) % log_interval == 0 or
\* e == max_epochs - 1 and in the order of the epochs, one sampling followed
\* by one saving, on the main process only; so when a loop of at least one
\* epoch has finished on the main process, its last epoch was sampled and
\* then saved.
C16_SampleAndSaveOnLogEpochs ==
    ppc \in {"epoch", "finished"} =>
        /\ epoch_events = ClaimedEpochEvents(loop_epoch)
        /\ ~pargs.is_main_process => epoch_events = << >>
        /\ (ppc = "finished" /\ pargs.max_epochs >= 1
                /\ pargs.is_main_process) =>
               /\ Len(epoch_events) >= 2
               /\ epoch_events[Len(epoch_events) - 1] =
                      [op |-> "evaluate", epoch |-> pargs.max_epochs - 1]
               /\ epoch_events[Len(epoch_events)] =
                      [op |-> "torch.save", epoch |-> pargs.max_epochs - 1]

\* A loop of three epochs with log_interval 2 has finished: epoch 1 was
\* logged for the interval and epoch 2 for being the last, epoch 0 was not.
C16_Witness ==
    /\ ppc = "finished"
    /\ pargs.is_main_process
    /\ pargs.max_epochs = 3
    /\ pargs.log_interval = 2
    /\ Len(epoch_events) = 4

\* The operations the claim orders, as they come in the last batch.
OrderedBatchOps ==
    SelectSeq(last_batch_ops,
              LAMBDA op : op \in {"accelerator.backward",
                                  "accelerator.clip_grad_norm_",
                                  "optimizer.step", "lr_scheduler.step",
                                  "optimizer.zero_grad",
                                  "mlflow.log_metrics"})

\* C17: the step logged for the k-th batch of the run (k from 0) is k;
\* global_step is the number of batches processed so far, over all the
\* epochs, and is max_epochs * len(train_loader) when the loop has finished;
\* the operations of a batch come in the order backward, gradient clipping,
\* optimizer step, scheduler step, gradient zeroing, logging.
C17_GlobalStepCountsBatches ==
    ppc \in {"epoch", "finished"} =>
        /\ \A k \in 1..Len(logged_steps) : logged_steps[k] = k - 1
        /\ global_step = Len(logged_steps)
        /\ global_step = loop_epoch * pargs.n_batches + loop_step
        /\ ppc = "finished" =>
               global_step = pargs.max_epochs * pargs.n_batches
        /\ global_step > 0 =>
               OrderedBatchOps =
                   <<"accelerator.backward", "accelerator.clip_grad_norm_",
                     "optimizer.step", "lr_scheduler.step",
                     "optimizer.zero_grad", "mlflow.log_metrics">>

\* The first batch of the second epoch was logged at the step that follows
\* the first epoch's two batches.
C17_Witness ==
    /\ ppc = "epoch"
    /\ pargs.n_batches = 2
    /\ loop_epoch = 1
    /\ loop_step = 1
    /\ logged_steps = <<0, 1, 2>>
    /\ global_step = 3

(***************************************************************************)
(* Properties of ttk create_transforms.                                    *)
(***************************************************************************)
\* The dictionary the claim calls available: the configuration's when
\* dataset_cfg is given and has one, else the argument's; none otherwise.
DictAvailable ==
    xargs.dataset_cfg = "with_transforms" \/ xargs.arg_given

AvailableDict ==
    IF xargs.dataset_cfg = "with_transforms"
    THEN xargs.cfg_transforms
    ELSE xargs.arg_transforms

InstancesOf(configs) ==
    [i \in 1..Len(configs) |-> [transform |-> configs[i]]]

\* C18: create_transforms returns None when no dictionary of transforms is
\* available; otherwise what it returns is the composition of the 'load'
\* transforms instantiated in their order, then the 'train' transforms
\* instantiated in their order if and only if use_transforms is true, then
\* the conversion to a tensor as the last element; and the configured 'load'
\* list is after the call what it was before.
C18_ComposeLoadThenTrainThenToTensor ==
    xpc = "returned" =>
        IF ~DictAvailable
        THEN composed.kind = "None"
        ELSE /\ composed.kind = "Compose"
             /\ composed.compose =
                    InstancesOf(AvailableDict.load) \o
                    (IF xargs.use_transforms
                     THEN InstancesOf(AvailableDict.train)
                     ELSE << >>) \o
                    <<[transform |-> "ToTensor"]>>
             /\ transform_dicts.load = AvailableDict.load
             /\ transform_dicts.train = AvailableDict.train

\* The configuration's dictionary was used, with its train transforms, and
\* not the one passed as an argument.
C18_Witness ==
    /\ xpc = "returned"
    /\ xargs.dataset_cfg = "with_transforms"
    /\ xargs.arg_given
    /\ xargs.arg_transforms # xargs.cfg_transforms
    /\ xargs.use_transforms
    /\ Len(xargs.cfg_transforms.load) = 2
    /\ Len(xargs.cfg_transforms.train) >= 1
    /\ composed.kind = "Compose"
    /\ Len(composed.compose) >= 4

(***************************************************************************)
(* Properties of apply_label_to_text_prompts.                              *)
(***************************************************************************)
\* The words of the base prompt in lower case: of 'a photo of a lung xray'
\* when no base is given, else of the base given.
ClaimedBaseWords ==
    CASE ~qargs.base_given ->
             <<<<"a">>, <<"p", "h", "o", "t", "o">>, <<"o", "f">>, <<"a">>,
               <<"l", "u", "n", "g">>, <<"x", "r", "a", "y">>>>
      [] qargs.base_given /\ Len(qargs.base) = 6 ->
             <<<<"a">>, <<"p", "h", "o", "t", "o">>, <<"o", "f">>, <<"a">>,
               <<"l", "u", "n", "g">>, <<"x", "r", "a", "y">>>>
      [] qargs.base_given /\ Len(qargs.base) = 2 ->
             <<<<"c", "h", "e", "s", "t">>, <<"x", "r", "a", "y">>>>
      [] qargs.base_given /\ Len(qargs.base) = 4 ->
             <<<<"a", "n">>, <<"x", "r", "a", "y">>, <<"o", "f">>,
               <<"l", "u", "n", "g", "s">>>>
      [] OTHER -> << >>

\* The names of the class columns as a lower-cased prompt shows them.
ClaimedNames ==
    <<<<"e", "f", "f", "u", "s", "i", "o", "n">>,
      <<"h", "e", "r", "n", "i", "a">>, <<"m", "a", "s", "s">>,
      <<"n", "o", " ", "f", "i", "n", "d", "i", "n", "g">>,
      <<"p", "n", "e", "u", "m", "o", "n", "i", "a">>>>

\* The words w1 ... wn with one space between two of them.
RECURSIVE Spaced(_)
Spaced(ws) ==
    IF ws = << >>
    THEN << >>
    ELSE IF Len(ws) = 1
         THEN ws[1]
         ELSE ws[1] \o <<" ">> \o Spaced(Tail(ws))

PositiveColumns == {i \in 1..Len(qargs.x) : qargs.x[i] = 1}

NoFindingIsSet ==
    \E i \in 1..Len(PromptColumns) :
        PromptColumns[i] = Str_NoFinding /\ qargs.x[i] = 1

\* The names of the positive columns from column i on, in column order,
\* with 'and' before the last one when there are two or more.
RECURSIVE NamesWithAnd(_)
NamesWithAnd(i) ==
    IF i > Len(qargs.x)
    THEN << >>
    ELSE (IF i \in PositiveColumns
          THEN (IF /\ Cardinality(PositiveColumns) >= 2
                   /\ \A j \in PositiveColumns : j <= i
                THEN <<<<"a", "n", "d">>, ClaimedNames[i]>>
                ELSE <<ClaimedNames[i]>>)
          ELSE << >>) \o NamesWithAnd(i + 1)

WithoutCommas(s) == SelectSeq(s, LAMBDA c : c # ",")

\* C19: for a row with 'No Finding' equal to 1, or whose entries sum to 0,
\* the prompt returned is exactly the base prompt in lower case, whatever
\* the other class flags are.
C19_NoFindingGivesBasePrompt ==
    (qpc = "returned"
        /\ (NoFindingIsSet \/ \A i \in 1..Len(qargs.x) : qargs.x[i] = 0)) =>
        prompt = Spaced(ClaimedBaseWords)

\* A row with 'No Finding' and two other classes set got the default base
\* prompt.
C19_Witness ==
    /\ qpc = "returned"
    /\ ~qargs.base_given
    /\ NoFindingIsSet
    /\ Cardinality(PositiveColumns) = 3
    /\ Len(prompt) = 22

\* C20: for a row with at least one class equal to 1 and 'No Finding' not 1,
\* the prompt returned, which is in lower case throughout, is, commas
\* aside, the base prompt, then 'depicting visible', then the names of the
\* classes equal to 1 in column order, each once, with 'and' before the last
\* name when two or more classes are positive; it does not end with a comma,
\* and with exactly two positive classes it has no comma.
C20_PromptNamesPositiveClasses ==
    (qpc = "returned" /\ PositiveColumns # {} /\ ~NoFindingIsSet) =>
        /\ WithoutCommas(prompt) =
               Spaced(ClaimedBaseWords \o
                      <<<<"d", "e", "p", "i", "c", "t", "i", "n", "g">>,
                        <<"v", "i", "s", "i", "b", "l", "e">>>> \o
                      NamesWithAnd(1))
        /\ prompt[Len(prompt)] # ","
        /\ Cardinality(PositiveColumns) = 2 =>
               \A i \in 1..Len(prompt) : prompt[i] # ","
        /\ Cardinality(PositiveColumns) >= 3 =>
               \E i \in 1..Len(prompt) : prompt[i] = ","

\* Three classes of a row were named after a base given by the caller.
C20_Witness ==
    /\ qpc = "returned"
    /\ qargs.base_given
    /\ Len(qargs.base) = 2
    /\ ~NoFindingIsSet
    /\ Cardinality(PositiveColumns) = 3
    /\ Len(prompt) > Len(Spaced(ClaimedBaseWords)) + 18

(***************************************************************************)
(* Idempotence of transform_labels_to_metaclass.                           *)
(***************************************************************************)
\* The call that starts repeats the arguments of the call that returned last.
SameMetaclassCall ==
    /\ mcalls >= 1
    /\ margs'.positive_class = margs.positive_class
    /\ margs'.negative_class = margs.negative_class

\* C21: transform_labels_to_metaclass is idempotent on the labels: applying
\* it a second time with the same positive_class and negative_class (the
\* default negative class "Non-<positive_class>" included) leaves the target
\* value of every row unchanged.
C21_MetaclassIsIdempotent ==
    [][(transform_labels_to_metaclass_apply /\ SameMetaclassCall)
          => df'.target = df.target]_vars

(***************************************************************************)
(* The datasets instantiate_image_dataset returns after combine_datasets.  *)
(***************************************************************************)
\* instantiate_image_dataset has returned with additional datasets configured.
ReturnedCombined == ipc = "done" /\ iargs.has_additional

\* C22: with additional datasets configured, instantiate_image_dataset keeps
\* the shape of the base loader's result: a base result (train, test) gives a
\* pair (train, test), a triple (train, val, test) is returned only if a
\* validation dataset exists, and no element of the returned tuple is None.
C22_CombinedKeepsShapeOfBase ==
    ReturnedCombined =>
        /\ Len(loaded_datasets) = 2 => Len(returned) = 2
        /\ Len(returned) = 3 => Len(loaded_datasets) = 3
        /\ \A i \in 1..Len(returned) : returned[i] # NoneDataset

====
